---- MODULE Spec2Model ----
(***************************************************************************)
(* A model of NexusMusicTagDownloader (TagNexus): the tag adapters of      *)
(* core/metadata_manager.py, the Discogs search and matching of            *)
(* core/discogs_manager.py and the match handlers of ui/main_window.py.    *)
(*                                                                         *)
(* Python values are modelled as follows.  A str is a TLA+ string where    *)
(* only equality and emptiness are used (tag values, native tag keys) and  *)
(* a sequence of one-character strings where the code looks inside it      *)
(* (lower(), substring tests, regular expressions, SequenceMatcher).  A    *)
(* dict is a function whose DOMAIN is the set of keys present.             *)
(***************************************************************************)
EXTENDS Integers, Sequences, FiniteSets, TLC

VARIABLES
    file,      \* the audio file on disk: extension, native tags, embedded pictures
    tpc,       \* position of the tag round trip: "idle", "saved", "loaded"
    saved,     \* the last save_tags call: its arguments, its result, the file before it
    loaded,    \* the dict returned by the last load_tags call
    call,      \* the call of a function of the program under examination: its arguments
    ret,       \* what that call returned or emitted: Pending, then Returned(value)
    tracks,    \* the library: for each row of the track model, the Track (filename, metadata)
    disk,      \* for each row, the audio file of the track
    session    \* the Discogs match handler of the main window that is running

vars == <<file, tpc, saved, loaded, call, ret, tracks, disk, session>>

\* what each part of the program leaves alone, and holds while another part runs
notTagVars == <<call, ret, tracks, disk, session>>

notCallVars == <<file, tpc, saved, loaded, tracks, disk, session>>

notMatchVars == <<file, tpc, saved, loaded, call, ret>>

\* no call has returned yet
Pending == [done |-> FALSE]

\* the call returned (or emitted) value
Returned(value) == [done |-> TRUE, value |-> value]

None == "<None>"

CallIdle ==
    /\ call = [fn |-> "none"]
    /\ ret = Pending

TagIdle ==
    /\ file = [ext |-> ".mp3", hasId3 |-> FALSE, tags |-> <<>>, pics |-> <<>>]
    /\ tpc = "off"
    /\ saved = <<>>
    /\ loaded = <<>>

MatchIdle ==
    /\ tracks = <<>>
    /\ disk = <<>>
    /\ session = [mode |-> "off"]

-----------------------------------------------------------------------------
(* Python dicts *)

EmptyDict == [k \in {} |-> ""]

Put(d, k, v) == [x \in (DOMAIN d) \cup {k} |-> IF x = k THEN v ELSE d[x]]

Del(d, k) == [x \in (DOMAIN d) \ {k} |-> d[x]]

DelAll(d, ks) == [x \in (DOMAIN d) \ ks |-> d[x]]

Get(d, k, default) == IF k \in DOMAIN d THEN d[k] ELSE default

(* Python values a caller stores in a tag dict: a str, or the bools True and
   False, written "<True>" and "<False>". *)
PyTrue == "<True>"

PyFalse == "<False>"

\* bool(value): the emptiness test of `if value:`
Truthy(v) == v \notin {"", PyFalse}

\* str(value)
Str(v) == IF v = PyTrue THEN "True" ELSE IF v = PyFalse THEN "False" ELSE v

\* int(value) of the values explored; a value outside the domain raises ValueError
IntParse == ("1" :> 1) @@ ("01" :> 1) @@ ("2" :> 2)

\* str(n) of the numbers explored
IntStr == (0 :> "0") @@ (1 :> "1") @@ (2 :> "2") @@ (7 :> "7")

-----------------------------------------------------------------------------
(* Python str operations on sequences of characters *)

LowerCase == <<"a", "b", "c", "d", "e", "f", "g", "h", "i", "j", "k", "l", "m",
               "n", "o", "p", "q", "r", "s", "t", "u", "v", "w", "x", "y", "z">>

LowerChar(c) ==
    LET UpperCase == <<"A", "B", "C", "D", "E", "F", "G", "H", "I", "J", "K", "L", "M",
                   "N", "O", "P", "Q", "R", "S", "T", "U", "V", "W", "X", "Y", "Z">>
    IN
    IF \E i \in DOMAIN UpperCase : UpperCase[i] = c
    THEN LowerCase[CHOOSE i \in DOMAIN UpperCase : UpperCase[i] = c]
    ELSE c

\* s.lower()
Lower(s) == [i \in DOMAIN s |-> LowerChar(s[i])]

\* s[i:j] with 1-based i and j exclusive
Slice(s, i, j) == SubSeq(s, i, j - 1)

\* s.startswith(x) from position i of s
MatchesAt(s, x, i) == i + Len(x) - 1 <= Len(s) /\ Slice(s, i, i + Len(x)) = x

\* x in s
Contains(s, x) == \E i \in 1..(Len(s) + 1) : MatchesAt(s, x, i)

\* ', '.join(names)
RECURSIVE JoinComma(_)
JoinComma(names) ==
    IF names = <<>> THEN <<>>
    ELSE IF Len(names) = 1 THEN names[1]
    ELSE names[1] \o <<",", " ">> \o JoinComma(Tail(names))

\* the whitespace of \s and of str.strip()
IsSpace(c) == c \in {" ", "\t", "\n"}

\* s.strip()
RECURSIVE Strip(_)
Strip(s) ==
    IF s = <<>> THEN s
    ELSE IF IsSpace(s[1]) THEN Strip(Tail(s))
    ELSE IF IsSpace(s[Len(s)]) THEN Strip(Slice(s, 1, Len(s)))
    ELSE s

-----------------------------------------------------------------------------
(* MetadataManager: the internal keys and the native keys of each format *)

KEY_TITLE == "title"

KEY_ARTIST == "artist"

KEY_ALBUM == "album"

KEY_YEAR == "year"

KEY_TRACK == "track"

KEY_GENRE == "genre"

KEY_COMMENT == "comment"

KEY_ALBUM_ARTIST == "album_artist"

KEY_COMPOSER == "composer"

KEY_DISC == "disc_number"

KEY_COMPILATION == "compilation"

KEY_LABEL == "label"

KEY_CATALOG == "catalog_number"

AllFields ==
    {KEY_TITLE, KEY_ARTIST, KEY_ALBUM, KEY_YEAR, KEY_TRACK, KEY_GENRE, KEY_COMMENT,
     KEY_ALBUM_ARTIST, KEY_COMPOSER, KEY_DISC, KEY_COMPILATION, KEY_LABEL, KEY_CATALOG}

SUPPORTED_EXTENSIONS == {".mp3", ".flac", ".m4a", ".mp4"}

\* the text frames that _load_mp3 reads with tags.get and _save_mp3 writes with set_frame
Mp3TextFrame ==
    (KEY_TITLE :> "TIT2") @@ (KEY_ARTIST :> "TPE1") @@ (KEY_ALBUM :> "TALB") @@
    (KEY_YEAR :> "TDRC") @@ (KEY_TRACK :> "TRCK") @@ (KEY_GENRE :> "TCON") @@
    (KEY_ALBUM_ARTIST :> "TPE2") @@ (KEY_COMPOSER :> "TCOM") @@ (KEY_DISC :> "TPOS")

\* the Vorbis comment of each field (set_tag in _save_flac)
FlacKey ==
    (KEY_TITLE :> "TITLE") @@ (KEY_ARTIST :> "ARTIST") @@ (KEY_ALBUM :> "ALBUM") @@
    (KEY_YEAR :> "DATE") @@ (KEY_TRACK :> "TRACKNUMBER") @@ (KEY_GENRE :> "GENRE") @@
    (KEY_COMMENT :> "COMMENT") @@ (KEY_ALBUM_ARTIST :> "ALBUMARTIST") @@
    (KEY_COMPOSER :> "COMPOSER") @@ (KEY_DISC :> "DISCNUMBER") @@
    (KEY_COMPILATION :> "COMPILATION") @@ (KEY_LABEL :> "LABEL") @@
    (KEY_CATALOG :> "CATALOGNUMBER")

\* the atom of each field written with set_atom in _save_mp4 ("(c)" stands for \xa9)
Mp4Atom ==
    (KEY_TITLE :> "(c)nam") @@ (KEY_ARTIST :> "(c)ART") @@ (KEY_ALBUM :> "(c)alb") @@
    (KEY_YEAR :> "(c)day") @@ (KEY_GENRE :> "(c)gen") @@ (KEY_COMMENT :> "(c)cmt") @@
    (KEY_ALBUM_ARTIST :> "aART") @@ (KEY_COMPOSER :> "(c)wrt") @@
    (KEY_LABEL :> "----:com.apple.iTunes:PUBLISHER") @@
    (KEY_CATALOG :> "----:com.apple.iTunes:CATALOGNUMBER")

(* The ID3 frame keys (mutagen HashKeys) that occur in the files explored, and
   the results on them of the three key.startswith tests of the MP3 code. *)
\* key.startswith('COMM')
StartsWithCOMM(k) == k \in {"COMM::eng", "COMM::deu", "COMM:note:eng"}

\* key.startswith('TXXX:CATALOGNUMBER')
StartsWithCatalogNumber(k) == k = "TXXX:CATALOGNUMBER"

\* key.startswith('TXXX:CATALOGNUMBER') or key.startswith('TXXX:CATALOG NUMBER')
StartsWithEitherCatalog(k) == k \in {"TXXX:CATALOGNUMBER", "TXXX:CATALOG NUMBER"}

-----------------------------------------------------------------------------
(* The cover_art_path argument of save_tags and the image file it names *)

NoCover == [path |-> "", exists |-> FALSE, data |-> ""]

\* cover_art_path and os.path.exists(cover_art_path)
CoverGiven(cover) == cover.path # "" /\ cover.exists

\* by cover_art_path.lower().endswith('.png'), on the paths explored
MimeOf(path) == IF path \in {"cover.png", "COVER.PNG"} THEN "image/png" ELSE "image/jpeg"

-----------------------------------------------------------------------------
(* MP3 (ID3v2.4).  file.tags maps each frame key to the frame's text; the
   APIC frames are file.pics, one per description (their HashKey). *)

\* set_frame of _save_mp3; frame_cls.__name__ is the key it is called with
set_frame(frames, key, value) ==
    IF Truthy(value) THEN Put(frames, key, Str(value))
    ELSE IF key \in DOMAIN frames THEN Del(frames, key)
    ELSE frames

\* the calls `if KEY in tags: set_frame(...)`, in the order of the source
RECURSIVE Mp3SetFrames(_, _, _)
Mp3SetFrames(frames, tags, fields) ==
    IF fields = <<>> THEN frames
    ELSE LET k == Head(fields)
         IN  Mp3SetFrames(IF k \in DOMAIN tags
                             THEN set_frame(frames, Mp3TextFrame[k], tags[k])
                             ELSE frames,
                          tags, Tail(fields))

_save_mp3(f, tags, cover) ==
    LET Mp3TextOrder ==
            <<KEY_TITLE, KEY_ARTIST, KEY_ALBUM, KEY_YEAR, KEY_TRACK, KEY_GENRE,
              KEY_ALBUM_ARTIST, KEY_COMPOSER, KEY_DISC>>
        text == Mp3SetFrames(f.tags, tags, Mp3TextOrder)
        \* the label, with TPUB
        label ==
            IF KEY_LABEL \notin DOMAIN tags THEN text
            ELSE IF Truthy(tags[KEY_LABEL]) THEN Put(text, "TPUB", Str(tags[KEY_LABEL]))
            ELSE IF "TPUB" \in DOMAIN text THEN Del(text, "TPUB")
            ELSE text
        \* the catalog number
        catalog ==
            IF KEY_CATALOG \notin DOMAIN tags THEN label
            ELSE IF Truthy(tags[KEY_CATALOG])
                 THEN Put(label, "TXXX:CATALOGNUMBER", Str(tags[KEY_CATALOG]))
            ELSE DelAll(label, {k \in DOMAIN label : StartsWithCatalogNumber(k)})
        \* the compilation flag
        compilation ==
            IF KEY_COMPILATION \notin DOMAIN tags THEN catalog
            ELSE Put(catalog, "TCMP",
                     IF Str(tags[KEY_COMPILATION]) \in {"1", "True", "True"} THEN "1" ELSE "0")
        \* the comment
        comment ==
            IF KEY_COMMENT \notin DOMAIN tags THEN compilation
            ELSE IF Truthy(tags[KEY_COMMENT])
                 THEN Put(compilation, "COMM::eng", Str(tags[KEY_COMMENT]))
            ELSE DelAll(compilation, {k \in DOMAIN compilation : StartsWithCOMM(k)})
        \* audio.tags.add(APIC(...)): the frame takes the place of the one with
        \* its HashKey, or is added to the tag
        apic == [desc |-> "Cover", mime |-> MimeOf(cover.path), data |-> cover.data]
        added ==
            IF \E i \in DOMAIN f.pics : f.pics[i].desc = apic.desc
            THEN [i \in DOMAIN f.pics |-> IF f.pics[i].desc = apic.desc THEN apic ELSE f.pics[i]]
            ELSE Append(f.pics, apic)
    IN  [f EXCEPT !.hasId3 = TRUE,
                  !.tags = comment,
                  !.pics = IF CoverGiven(cover) THEN added ELSE f.pics]

(* _load_mp3 takes the first key of tags.keys() that passes a startswith test.
   The order of tags.keys() is the order in which mutagen read the frames of
   the file, which the source does not fix: `pick` names the key that comes
   first among those that pass ("" when none does), for the catalog number,
   the comment and the picture (an index of file.pics, 0 when there is none). *)
Mp3Picks(f) ==
    LET among(S) == IF S = {} THEN {""} ELSE S
    IN  [cat  : among({k \in DOMAIN f.tags : StartsWithEitherCatalog(k)}),
         comm : among({k \in DOMAIN f.tags : StartsWithCOMM(k)}),
         pic  : IF f.pics = <<>> THEN {0} ELSE DOMAIN f.pics]

_load_mp3(f, pick) ==
    IF ~f.hasId3 THEN EmptyDict
    ELSE LET t    == f.tags
             base == [k \in DOMAIN Mp3TextFrame \cup {KEY_LABEL, KEY_COMPILATION} |->
                         IF k = KEY_LABEL THEN Get(t, "TPUB", "")
                         ELSE IF k = KEY_COMPILATION THEN Get(t, "TCMP", "0")
                         ELSE Get(t, Mp3TextFrame[k], "")]
             r1   == IF pick.cat # "" THEN Put(base, KEY_CATALOG, t[pick.cat]) ELSE base
             r2   == IF pick.comm # "" THEN Put(r1, KEY_COMMENT, t[pick.comm]) ELSE r1
         IN  IF pick.pic # 0 THEN Put(r2, "cover_path", f.pics[pick.pic].data) ELSE r2

-----------------------------------------------------------------------------
(* FLAC (Vorbis comments).  file.tags maps each comment name to its list of
   values; file.pics is audio.pictures. *)

\* set_tag storing the empty string where the code deletes the field
set_tag_storing_empty(audio, key, val_key, tags) ==
    IF val_key \notin DOMAIN tags THEN audio
    ELSE Put(audio, key, <<Str(tags[val_key])>>)

\* set_tag of _save_flac
set_tag(audio, key, val_key, tags) ==
    IF val_key \notin DOMAIN tags THEN audio
    ELSE IF Truthy(tags[val_key]) THEN Put(audio, key, <<Str(tags[val_key])>>)
    ELSE IF key \in DOMAIN audio THEN Del(audio, key)
    ELSE audio

RECURSIVE FlacSetTags(_, _, _)
FlacSetTags(audio, tags, fields) ==
    IF fields = <<>> THEN audio
    ELSE FlacSetTags(set_tag(audio, FlacKey[Head(fields)], Head(fields), tags),
                     tags, Tail(fields))

\* FlacSetCover with clear_pictures() called ahead of the test of the cover
\* argument: the faulty variant that C2 tells from the code
FlacSetCoverClearsFirst(pics, cover) ==
    IF CoverGiven(cover)
    THEN <<[desc |-> "", mime |-> MimeOf(cover.path), data |-> cover.data]>>
    ELSE <<>>

\* audio.clear_pictures(); audio.add_picture(p)
FlacSetCover(pics, cover) ==
    IF CoverGiven(cover)
    THEN <<[desc |-> "", mime |-> MimeOf(cover.path), data |-> cover.data]>>
    ELSE pics

_save_flac(f, tags, cover) ==
    LET FlacOrder ==
            <<KEY_TITLE, KEY_ARTIST, KEY_ALBUM, KEY_YEAR, KEY_TRACK, KEY_GENRE, KEY_COMMENT,
              KEY_ALBUM_ARTIST, KEY_COMPOSER, KEY_DISC, KEY_COMPILATION, KEY_LABEL, KEY_CATALOG>>
    IN  [f EXCEPT !.tags = FlacSetTags(f.tags, tags, FlacOrder),
                  !.pics = FlacSetCover(f.pics, cover)]

\* audio.get(key, default)[0]
First(audio, key, default) == Get(audio, key, <<default>>)[1]

_load_flac(f) ==
    LET a    == f.tags
        base == [k \in DOMAIN FlacKey |->
                    IF k = KEY_COMPILATION THEN First(a, "COMPILATION", "0")
                    ELSE IF k = KEY_LABEL
                         THEN Get(a, "LABEL", Get(a, "PUBLISHER", <<"">>))[1]
                    ELSE First(a, FlacKey[k], "")]
    IN  IF f.pics # <<>> THEN Put(base, "cover_path", f.pics[1].data) ELSE base

-----------------------------------------------------------------------------
(* M4A (MP4 atoms).  file.tags maps each atom to its list of values: strings
   for the text and freeform atoms, (number, total) pairs for trkn and disk,
   a bool for cpil; file.pics is the covr atom. *)

\* set_atom of _save_mp4
set_atom(audio, atom, key, tags) ==
    IF key \notin DOMAIN tags THEN audio
    ELSE IF Truthy(tags[key]) THEN Put(audio, atom, <<Str(tags[key])>>)
    ELSE IF atom \in DOMAIN audio THEN Del(audio, atom)
    ELSE audio

RECURSIVE Mp4SetAtoms(_, _, _)
Mp4SetAtoms(audio, tags, fields) ==
    IF fields = <<>> THEN audio
    ELSE Mp4SetAtoms(set_atom(audio, Mp4Atom[Head(fields)], Head(fields), tags),
                     tags, Tail(fields))

\* the disk and trkn blocks: int(value) with the total of the existing pair;
\* a value int() rejects leaves the atom as it is (except: pass)
Mp4SetNumber(audio, atom, key, tags) ==
    IF key \in DOMAIN tags /\ Truthy(tags[key]) /\ tags[key] \in DOMAIN IntParse
    THEN LET existing == Get(audio, atom, <<>>)
             total    == IF Len(existing) > 0 THEN existing[1][2] ELSE 0
         IN  Put(audio, atom, << <<IntParse[tags[key]], total>> >>)
    ELSE audio

_save_mp4(f, tags, cover) ==
    LET Mp4Order ==
            <<KEY_TITLE, KEY_ARTIST, KEY_ALBUM, KEY_YEAR, KEY_GENRE, KEY_COMMENT,
              KEY_ALBUM_ARTIST, KEY_COMPOSER, KEY_LABEL, KEY_CATALOG>>
        atoms == Mp4SetAtoms(f.tags, tags, Mp4Order)
        \* the compilation flag
        cpil ==
            IF KEY_COMPILATION \notin DOMAIN tags THEN atoms
            ELSE Put(atoms, "cpil", <<Str(tags[KEY_COMPILATION]) \in {"1", "True", "true"}>>)
    IN  [f EXCEPT !.tags = Mp4SetNumber(Mp4SetNumber(cpil, "disk", KEY_DISC, tags),
                                        "trkn", KEY_TRACK, tags),
                  \* audio['covr'] = [MP4Cover(data, imageformat)]
                  !.pics = IF CoverGiven(cover)
                           THEN <<[desc |-> "", mime |-> MimeOf(cover.path), data |-> cover.data]>>
                           ELSE f.pics]

_load_mp4(f) ==
    LET a    == f.tags
        base == [k \in DOMAIN Mp4Atom \cup {KEY_COMPILATION} |->
                    IF k = KEY_COMPILATION
                    THEN (IF "cpil" \in DOMAIN a /\ a["cpil"] # <<>> /\ a["cpil"][1]
                          THEN "1" ELSE "0")
                    ELSE IF k = KEY_LABEL
                         THEN Get(a, "----:com.apple.iTunes:PUBLISHER",
                                  Get(a, "----:com.apple.iTunes:LABEL", <<"">>))[1]
                    ELSE First(a, Mp4Atom[k], "")]
        r1   == IF Get(a, "disk", <<>>) # <<>>
                THEN Put(base, KEY_DISC, IntStr[a["disk"][1][1]]) ELSE base
        r2   == IF Get(a, "trkn", <<>>) # <<>>
                THEN Put(r1, KEY_TRACK, IntStr[a["trkn"][1][1]]) ELSE r1
    IN  IF f.pics # <<>> THEN Put(r2, "cover_path", f.pics[1].data) ELSE r2

-----------------------------------------------------------------------------
(* load_tags and save_tags: the dispatch on the extension *)

\* save_tags: [ok |-> the bool returned, file |-> the file afterwards]
save_tags(f, tags, cover) ==
    IF f.ext = ".mp3" THEN [ok |-> TRUE, file |-> _save_mp3(f, tags, cover)]
    ELSE IF f.ext = ".flac" THEN [ok |-> TRUE, file |-> _save_flac(f, tags, cover)]
    ELSE IF f.ext \in {".m4a", ".aac"} THEN [ok |-> TRUE, file |-> _save_mp4(f, tags, cover)]
    ELSE [ok |-> FALSE, file |-> f]

LoadPicks(f) == IF f.ext = ".mp3" THEN Mp3Picks(f) ELSE {[cat |-> "", comm |-> "", pic |-> 0]}

\* load_tags: the adapter's dict with the file path added
load_tags(f, pick) ==
    LET tags == IF f.ext = ".mp3" THEN _load_mp3(f, pick)
                ELSE IF f.ext = ".flac" THEN _load_flac(f)
                ELSE IF f.ext \in {".m4a", ".aac"} THEN _load_mp4(f)
                ELSE EmptyDict
    IN  Put(tags, "filepath", f.ext)

-----------------------------------------------------------------------------
(* The tag round trip: a file with the tags another program left in it, one
   save_tags call, then load_tags. *)

\* the most keys a tag dict handed to save_tags holds
MaxKeys == 1

\* the fields whose values are explored (the others are written and read by
\* the same set_frame / set_tag / set_atom calls as the title), the values of
\* each, one of them not ASCII, and the dicts made of them
TagDicts ==
    LET ExploredFields ==
            {KEY_TITLE, KEY_TRACK, KEY_DISC, KEY_COMMENT, KEY_LABEL, KEY_CATALOG,
             KEY_COMPILATION}
        FieldValues(k) ==
            IF k \in {KEY_TRACK, KEY_DISC} THEN {"", "1", "01", "A1"}
            ELSE IF k = KEY_COMPILATION THEN {"0", "1", "true", PyTrue}
            ELSE {"", "Ab", "Bj<o-umlaut>rk"}
    IN  UNION {{d \in [K -> UNION {FieldValues(k) : k \in K}] :
                   \A k \in K : d[k] \in FieldValues(k)} :
                 K \in {S \in SUBSET ExploredFields : Cardinality(S) <= MaxKeys}}

\* the frames, comments and atoms that a file of each kind may hold before the
\* save
PriorOf(ext) ==
    IF ext = ".mp3"
    THEN ("TIT2" :> "Old") @@ ("TRCK" :> "7") @@ ("TPUB" :> "OldLabel") @@ ("TCMP" :> "1") @@
         ("TXXX:CATALOG NUMBER" :> "OLD 1") @@ ("TXXX:CATALOGNUMBER" :> "OLD2") @@
         ("COMM::deu" :> "Kommentar") @@ ("COMM:note:eng" :> "Note") @@
         ("COMM::eng" :> "OldComment")
    ELSE IF ext = ".flac"
    THEN ("TITLE" :> <<"Old", "Second">>) @@ ("TRACKNUMBER" :> <<"7">>) @@
         ("LABEL" :> <<"OldLabel">>) @@ ("PUBLISHER" :> <<"OldPublisher">>) @@
         ("COMPILATION" :> <<"1">>) @@ ("COMMENT" :> <<"OldComment">>) @@
         ("CATALOGNUMBER" :> <<"OLD2">>)
    ELSE ("(c)nam" :> <<"Old">>) @@ ("trkn" :> << <<7, 2>> >>) @@ ("disk" :> << <<1, 2>> >>) @@
         ("cpil" :> <<TRUE>>) @@ ("(c)cmt" :> <<"OldComment">>) @@
         ("----:com.apple.iTunes:LABEL" :> <<"OldLabel">>) @@
         ("----:com.apple.iTunes:PUBLISHER" :> <<"OldPublisher">>) @@
         ("----:com.apple.iTunes:CATALOGNUMBER" :> <<"OLD2">>)

\* the files a save may find: their tags are none, any single one, or one of
\* the pairs that the adapters tell apart on read; their pictures none, one or two
PriorFiles ==
    LET PriorKeySets(ext) ==
            {{}} \cup {{k} : k \in DOMAIN PriorOf(ext)} \cup
            (IF ext = ".mp3"
             THEN {{"COMM::deu", "COMM::eng"}, {"TXXX:CATALOG NUMBER", "TXXX:CATALOGNUMBER"}}
             ELSE IF ext = ".flac" THEN {{"LABEL", "PUBLISHER"}}
             ELSE {{"----:com.apple.iTunes:LABEL", "----:com.apple.iTunes:PUBLISHER"}})
        OldPic1 == [desc |-> "", mime |-> "image/jpeg", data |-> "old1"]
        OldPic2 == [desc |-> "Cover", mime |-> "image/png", data |-> "old2"]
        PriorPics == {<<>>, <<OldPic1>>, <<OldPic2>>, <<OldPic1, OldPic2>>, <<OldPic2, OldPic1>>}
    IN  {[ext |-> ".mp3", hasId3 |-> FALSE, tags |-> EmptyDict, pics |-> <<>>]} \cup
        UNION {{[ext |-> e, hasId3 |-> TRUE, tags |-> [k \in K |-> PriorOf(e)[k]], pics |-> p] :
                  K \in PriorKeySets(e),
                  p \in PriorPics} :
               e \in SUPPORTED_EXTENSIONS}

\* a caller saves `tags`, with or without a cover image
SaveTags(tags, cover) ==
    /\ tpc = "idle"
    /\ LET r == save_tags(file, tags, cover)
       IN  /\ file' = r.file
           /\ saved' = [called |-> TRUE, tags |-> tags, cover |-> cover, ok |-> r.ok,
                        before |-> file]
    /\ tpc' = "saved"
    /\ UNCHANGED loaded
    /\ UNCHANGED notTagVars

\* a caller loads the tags of the file
LoadTags(pick) ==
    /\ tpc \in {"idle", "saved"}
    /\ loaded' = load_tags(file, pick)
    /\ tpc' = "loaded"
    /\ UNCHANGED <<file, saved>>
    /\ UNCHANGED notTagVars

TagInit ==
    /\ CallIdle /\ MatchIdle
    /\ file \in PriorFiles
    /\ tpc = "idle"
    /\ saved = [called |-> FALSE, tags |-> EmptyDict, cover |-> NoCover, ok |-> FALSE,
                before |-> file]
    /\ loaded = EmptyDict

SpecTags ==
    TagInit /\ [][\/ \E tags \in TagDicts,
                        cover \in {NoCover,
                                   [path |-> "cover.jpg", exists |-> TRUE, data |-> "new"],
                                   [path |-> "cover.png", exists |-> TRUE, data |-> "new"],
                                   [path |-> "gone.jpg", exists |-> FALSE, data |-> ""]} :
                        SaveTags(tags, cover)
                  \/ \E pick \in LoadPicks(file) : LoadTags(pick)]_vars

-----------------------------------------------------------------------------
(* Claims about the tag adapters (checked under SpecTags) *)

\* the internal keys each adapter reads and writes
SupportedFields(ext) == IF ext \in {".mp3", ".flac", ".m4a", ".aac"} THEN AllFields ELSE {}

\* C1: round-trip law.  After save_tags(path, tag) succeeds, load_tags(path)
\* returns, for every field of tag that the format supports and that was saved
\* with a non-empty value, exactly the value saved, whatever the file held before.
\* (The compilation flag, which a save normalises, is left out of the comparison.)
C1_RoundTrip ==
    (tpc = "loaded" /\ saved.called /\ saved.ok) =>
        \A k \in (DOMAIN saved.tags \cap SupportedFields(file.ext)) \ {KEY_COMPILATION} :
            saved.tags[k] # "" => (k \in DOMAIN loaded /\ loaded[k] = saved.tags[k])

\* C2: save_tags called with no cover argument leaves the embedded images of
\* the file as they were, whatever tag fields the call writes.
C2_NoCoverKeepsPictures ==
    (saved.called /\ saved.cover = NoCover) => file.pics = saved.before.pics

\* C2 witness: a save without cover that wrote a tag into a file holding two pictures
C2_Witness ==
    /\ tpc = "saved" /\ saved.called /\ saved.ok /\ saved.cover = NoCover
    /\ Len(saved.before.pics) = 2
    /\ file.tags # saved.before.tags

\* C3: after save_tags with a cover image, the embedded images of the file are
\* exactly that one image: every image embedded before is replaced.
C3_CoverReplacesAll ==
    (saved.called /\ saved.ok /\ CoverGiven(saved.cover)) =>
        (Len(file.pics) = 1 /\ file.pics[1].data = saved.cover.data)

-----------------------------------------------------------------------------
(* DiscogsManager.clean_query.  The patterns are matched with re.I: they are
   written here in lower case and compared with the lowered text. *)

\* re.sub(r'\.(mp3|flac|m4a|wav|aac)$', '', text, flags=re.I)
StripAudioSuffix(text) ==
    LET AudioSuffixes ==
            {<<".", "m", "p", "3">>, <<".", "f", "l", "a", "c">>,
             <<".", "m", "4", "a">>, <<".", "w", "a", "v">>, <<".", "a", "a", "c">>}
        HasSuffix(e) ==
            /\ Len(text) >= Len(e)
            /\ Lower(Slice(text, Len(text) - Len(e) + 1, Len(text) + 1)) = e
    IN  IF \E e \in AudioSuffixes : HasSuffix(e)
        THEN LET e == CHOOSE x \in AudioSuffixes : HasSuffix(x)
             IN  Slice(text, 1, Len(text) - Len(e) + 1)
        ELSE text

\* re.sub(junk_pattern, '', text, flags=re.I): a bracket opened with '(' or '['
\* is removed up to the first ')' or ']' when a word of junk_pattern stands in
\* between
RECURSIVE RemoveJunkBrackets(_)
RemoveJunkBrackets(s) ==
    LET JunkWords ==
            {<<"o", "f", "f", "i", "c", "i", "a", "l">>, <<"v", "i", "d", "e", "o">>,
             <<"a", "u", "d", "i", "o">>, <<"4", "k">>, <<"h", "d">>, <<"h", "q">>,
             <<"l", "y", "r", "i", "c", "s">>,
             <<"v", "i", "s", "u", "a", "l", "i", "z", "e", "r">>,
             <<"l", "i", "v", "e">>, <<"s", "e", "t">>,
             <<"s", "t", "r", "e", "a", "m">>, <<"u", "p", "l", "o", "a", "d">>,
             <<"r", "e", "c", "o", "r", "d">>,
             <<"p", "r", "e", "m", "i", "e", "r", "e">>}
        \* the index of the first ')' or ']' of s at or after i, 0 when there is none
        RECURSIVE FirstClose(_)
        FirstClose(i) ==
            IF i > Len(s) THEN 0
            ELSE IF s[i] \in {")", "]"} THEN i
            ELSE FirstClose(i + 1)
    IN  IF s = <<>> THEN s
        ELSE LET q == IF s[1] \in {"(", "["} THEN FirstClose(2) ELSE 0
             IN  IF q # 0 /\ \E w \in JunkWords : Contains(Lower(Slice(s, 2, q)), w)
                 THEN RemoveJunkBrackets(Slice(s, q + 1, Len(s) + 1))
                 ELSE <<s[1]>> \o RemoveJunkBrackets(Tail(s))

junk_strings ==
    <<<<"o", "f", "f", "i", "c", "i", "a", "l", " ", "v", "i", "d", "e", "o">>,
      <<"o", "f", "f", "i", "c", "i", "a", "l", " ", "a", "u", "d", "i", "o">>,
      <<"o", "f", "f", "i", "c", "i", "a", "l", " ", "m", "u", "s", "i", "c", " ", "v", "i", "d", "e", "o">>,
      <<"f", "u", "l", "l", " ", "s", "e", "t">>,
      <<"3", "-", "h", "r", " ", "s", "e", "t">>,
      <<"c", "l", "o", "s", "i", "n", "g", " ", "s", "e", "t">>,
      <<"a", "t", " ", "9", "0", "9", " ", "f", "e", "s", "t", "i", "v", "a", "l">>,
      <<"a", "m", "s", "t", "e", "r", "d", "a", "m">>,
      <<"e", "x", "c", "l", "u", "s", "i", "v", "e">>,
      <<"v", "i", "s", "u", "a", "l", "i", "z", "e", "r">>,
      <<"m", "u", "s", "i", "c", " ", "v", "i", "d", "e", "o">>,
      <<"o", "r", "i", "g", "i", "n", "a", "l", " ", "m", "i", "x">>,
      <<"r", "a", "d", "i", "o", " ", "e", "d", "i", "t">>,
      <<"e", "x", "t", "e", "n", "d", "e", "d", " ", "m", "i", "x">>,
      <<"r", "e", "m", "i", "x">>>>

\* for item in junk_strings: text = re.sub(re.escape(item), '', text, flags=re.I)
RECURSIVE RemoveJunkStrings(_, _)
RemoveJunkStrings(s, items) ==
    LET RECURSIVE RemoveAll(_, _)
        RemoveAll(t, item) ==
            IF t = <<>> THEN t
            ELSE IF MatchesAt(Lower(t), item, 1)
                 THEN RemoveAll(Slice(t, Len(item) + 1, Len(t) + 1), item)
            ELSE <<t[1]>> \o RemoveAll(Tail(t), item)
    IN  IF items = <<>> THEN s
        ELSE RemoveJunkStrings(RemoveAll(s, Head(items)), Tail(items))

\* text.replace(' B2B ', ' ')
RECURSIVE ReplaceB2B(_)
ReplaceB2B(s) ==
    IF s = <<>> THEN s
    ELSE IF MatchesAt(s, <<" ", "B", "2", "B", " ">>, 1)
         THEN <<" ">> \o ReplaceB2B(Slice(s, 6, Len(s) + 1))
    ELSE <<s[1]>> \o ReplaceB2B(Tail(s))

RECURSIVE SkipSpaces(_)
SkipSpaces(s) == IF s # <<>> /\ IsSpace(s[1]) THEN SkipSpaces(Tail(s)) ELSE s

\* re.sub(r'\s+', ' ', text)
RECURSIVE CollapseSpaces(_)
CollapseSpaces(s) ==
    IF s = <<>> THEN s
    ELSE IF IsSpace(s[1]) THEN <<" ">> \o CollapseSpaces(SkipSpaces(s))
    ELSE <<s[1]>> \o CollapseSpaces(Tail(s))

\* clean_query without text.replace(' B2B ', ' '): the faulty variant that C11
\* tells from the code
clean_query_keeps_b2b(text) ==
    IF text = <<>> THEN <<>>
    ELSE Strip(CollapseSpaces(
             RemoveJunkStrings(RemoveJunkBrackets(StripAudioSuffix(text)), junk_strings)))

clean_query(text) ==
    IF text = <<>> THEN <<>>
    ELSE Strip(CollapseSpaces(ReplaceB2B(
             RemoveJunkStrings(RemoveJunkBrackets(StripAudioSuffix(text)), junk_strings))))

-----------------------------------------------------------------------------
(* DiscogsManager.auto_match.  `client` stands for self.client and the answer
   of the catalog to client.search(query, type='release'): error is TRUE when
   the client is missing or the request raises, results is the SearchList. *)

\* auto_match deciding on the artist alone: the faulty variant that C7 tells
\* from the code
auto_match_artist_only(artist, title, client) ==
    LET query == clean_query(artist \o <<" ">> \o title)
    IN  IF query = <<>> THEN None
        ELSE IF client.error THEN None
        ELSE IF client.results = <<>> THEN None
        ELSE LET first_result == client.results[1]
                 result_artist == JoinComma(first_result.artists)
             IN  IF Contains(Lower(result_artist), Lower(artist))
                 THEN first_result.id
                 ELSE None

auto_match(artist, title, client) ==
    LET query == clean_query(artist \o <<" ">> \o title)
    IN  IF query = <<>> THEN None
        ELSE IF client.error THEN None
        ELSE IF client.results = <<>> THEN None
        ELSE LET first_result == client.results[1]
                 result_artist == JoinComma(first_result.artists)
                 result_title  == first_result.title
             IN  IF /\ Contains(Lower(result_artist), Lower(artist))
                    /\ Contains(Lower(result_title), Lower(title))
                 THEN first_result.id
                 ELSE None

\* the most results the catalog returns to one auto_match search
MaxAutoResults == 2

\* auto_match(artist, title) runs to its return
AutoMatch ==
    /\ call.fn = "auto_match" /\ ret = Pending
    /\ ret' = Returned(auto_match(call.artist, call.title, call.client))
    /\ UNCHANGED call
    /\ UNCHANGED notCallVars

\* the artist and title of the local track, and the client with the releases
\* (id, artist names, title) that its search returns, or the error it raises
SpecAuto ==
    /\ LET AutoReleases ==
               {[id |-> "r101", artists |-> <<<<"a", "b">>, <<"C", "d">>>>,
                 title |-> <<"X", "Y", " ", "Z">>],
                [id |-> "r102", artists |-> <<<<"A", "b", "c">>>>,
                 title |-> <<"Q", " ", "(", "L", "i", "v", "e", ")">>],
                [id |-> "r103", artists |-> <<>>, title |-> <<"R", "e", "m", "i", "x">>]}
           AutoClients ==
               {[error |-> TRUE, results |-> <<>>]} \cup
               {[error |-> FALSE, results |-> r] :
                   r \in UNION {[1..n -> AutoReleases] : n \in 0..MaxAutoResults}}
       IN  /\ TagIdle /\ MatchIdle
           /\ call \in [fn : {"auto_match"},
                        artist : {<<>>, <<"A", "b">>, <<"A", "B">>, <<"C", "d">>},
                        title : {<<"X", "y">>, <<"x", "y", " ", "z">>, <<"R", "e", "m", "i", "x">>,
                                 <<"Q", " ", "(", "L", "i", "v", "e", ")">>},
                        client : AutoClients]
           /\ ret = Pending
    /\ [][AutoMatch]_vars

\* C7: auto_match returns a release only if the first result's artist string
\* contains the local artist and its title contains the local title, both
\* compared without regard to case; and then it is the first result's id.  With
\* no results, a failed containment or a search error it returns None.
C7_AutoAcceptOnlyFirstContained ==
    (call.fn = "auto_match" /\ ret.done) =>
        LET rs == call.client.results
            contained ==
                /\ ~call.client.error
                /\ rs # <<>>
                /\ \E i \in 1..(Len(JoinComma(rs[1].artists)) - Len(call.artist) + 1) :
                       Lower(SubSeq(JoinComma(rs[1].artists), i, i + Len(call.artist) - 1))
                           = Lower(call.artist)
                /\ \E i \in 1..(Len(rs[1].title) - Len(call.title) + 1) :
                       Lower(SubSeq(rs[1].title, i, i + Len(call.title) - 1))
                           = Lower(call.title)
        IN  /\ ret.value # None => (contained /\ ret.value = rs[1].id)
            /\ ~contained => ret.value = None

\* C7 witness: a release accepted whose artist and title differ in case from
\* the local ones, with a second result behind it
C7_Witness ==
    /\ call.fn = "auto_match" /\ ret.done /\ ret.value # None
    /\ call.artist # <<>>
    /\ ~Contains(JoinComma(call.client.results[1].artists), call.artist)
    /\ ~Contains(call.client.results[1].title, call.title)
    /\ Len(call.client.results) = 2

-----------------------------------------------------------------------------
(* difflib.SequenceMatcher(None, a, b).ratio(), as the pair <<2*M, T>> of the
   fraction 2.0*M/T: M is the number of characters in the matching blocks, T
   the total length.  The strings compared are shorter than the 200
   characters from which SequenceMatcher discards popular characters. *)

\* the characters in the matching blocks of a[alo..ahi-1] and b[blo..bhi-1]:
\* the longest block (of those, the one starting earliest in a, then earliest
\* in b), and the same to its left and to its right
RECURSIVE MatchingChars(_, _, _, _, _, _)
MatchingChars(a, b, alo, ahi, blo, bhi) ==
    LET RECURSIVE len(_, _)
        len(i, j) == IF i < ahi /\ j < bhi /\ a[i] = b[j] THEN 1 + len(i + 1, j + 1) ELSE 0
        starts == {p \in (alo..(ahi - 1)) \X (blo..(bhi - 1)) : a[p[1]] = b[p[2]]}
    IN  IF starts = {} THEN 0
        ELSE LET sized == [p \in starts |-> len(p[1], p[2])]
                 best  == CHOOSE p \in starts :
                              \A q \in starts :
                                  \/ sized[p] > sized[q]
                                  \/ sized[p] = sized[q] /\ p[1] < q[1]
                                  \/ sized[p] = sized[q] /\ p[1] = q[1] /\ p[2] <= q[2]
                 k     == sized[best]
             IN  k + MatchingChars(a, b, alo, best[1], blo, best[2])
                   + MatchingChars(a, b, best[1] + k, ahi, best[2] + k, bhi)

ratio(a, b) ==
    IF Len(a) + Len(b) = 0 THEN <<1, 1>>
    ELSE <<2 * MatchingChars(a, b, 1, Len(a) + 1, 1, Len(b) + 1), Len(a) + Len(b)>>

\* x > y for two such fractions
Greater(x, y) == x[1] * y[2] > y[1] * x[2]

\* list.sort: the stable sort of s by the strict order Less of its keys
StableSort(s, Less(_, _)) ==
    LET rank(i) == 1 + Cardinality({j \in DOMAIN s :
                           Less(s[j], s[i]) \/ (~Less(s[i], s[j]) /\ j < i)})
    IN  [r \in DOMAIN s |-> s[CHOOSE i \in DOMAIN s : rank(i) = r]]

-----------------------------------------------------------------------------
(* DiscogsSearchWorker.run.  `w` holds the worker's fields; `catalog` is the
   Discogs service: answers[kind] is what client.search returns for a search
   by catalog number ("catno"), by artist and release title ("release_title"),
   by artist and track ("track") or by free text ("q"); fault names the
   exception that fetching any result raises ("none" when the service works). *)

\* re.sub(r'\s*\(\d+\)$', '', name)
clean_artist_name(name) ==
    LET RECURSIVE digits(_)
        digits(i) == IF i >= 1 /\ name[i] \in {"0", "1", "2", "3", "4", "5", "6", "7", "8", "9"}
                     THEN digits(i - 1) ELSE i
        RECURSIVE spaces(_)
        spaces(i) == IF i >= 1 /\ IsSpace(name[i]) THEN spaces(i - 1) ELSE i
        n == Len(name)
        d == digits(n - 1)
    IN  IF n >= 3 /\ name[n] = ")" /\ d < n - 1 /\ d >= 1 /\ name[d] = "("
        THEN Slice(name, 1, spaces(d - 1) + 1)
        ELSE name

\* the dict appended to matches for one release of the results
ToMatch(release) ==
    LET r_artists == JoinComma([i \in DOMAIN release.artists |->
                                   clean_artist_name(release.artists[i])])
        rest      == SkipSpaces(Slice(release.title, Len(r_artists) + 1, Len(release.title) + 1))
        r_title   == IF /\ r_artists # <<>>
                        /\ MatchesAt(Lower(release.title), Lower(r_artists), 1)
                        /\ rest # <<>> /\ rest[1] \in {"-", ":"}
                     THEN SkipSpaces(Tail(rest))
                     ELSE release.title
        is_cd     == \E i \in DOMAIN release.formats :
                         Contains(Lower(release.formats[i]), <<"c", "d">>)
    IN  [id |-> release.id, title |-> r_title, year |-> release.year,
         artists |-> r_artists, is_cd |-> is_cd]

\* `if i >= 20: break`
FetchLimit == 20

\* matches[:10]
ShowLimit == 10

\* the order of matches.sort(key=lambda m: (not m['is_cd'], m.get('year', '9999')))
WorkerBefore(x, y) ==
    \/ x.is_cd /\ ~y.is_cd
    \/ x.is_cd = y.is_cd /\ x.year < y.year

\* the search run first, with the artist and track search chosen ahead of the
\* album search: the faulty variant that C6 tells from the code
FirstQueryTrackFirst(w) ==
    IF w.catalog_number # <<>> THEN [kind |-> "catno", artist |-> <<>>, text |-> w.catalog_number]
    ELSE IF w.artist # <<>> /\ w.title # <<>>
         THEN [kind |-> "track", artist |-> w.artist, text |-> w.title]
    ELSE IF w.album # <<>>
         THEN [kind |-> "release_title", artist |-> w.artist, text |-> w.album]
    ELSE [kind |-> "q", artist |-> <<>>,
          text |-> clean_query(Strip(w.artist \o <<" ">> \o w.album \o <<" ">> \o w.title))]

\* the if / elif chain that fills params: the search run first
FirstQuery(w) ==
    IF w.catalog_number # <<>> THEN [kind |-> "catno", artist |-> <<>>, text |-> w.catalog_number]
    ELSE IF w.album # <<>>
         THEN [kind |-> "release_title", artist |-> w.artist, text |-> w.album]
    ELSE IF w.artist # <<>> /\ w.title # <<>>
         THEN [kind |-> "track", artist |-> w.artist, text |-> w.title]
    ELSE [kind |-> "q", artist |-> <<>>,
          text |-> clean_query(Strip(w.artist \o <<" ">> \o w.album \o <<" ">> \o w.title))]

\* run: the searches made, in order, and the signal emitted with its payload
run(w, catalog) ==
    LET first      == FirstQuery(w)
        structured == \/ w.album # <<>>
                      \/ (w.artist # <<>> /\ w.title # <<>>)
                      \/ w.catalog_number # <<>>
        count      == IF catalog.fault = "none" THEN Len(catalog.answers[first.kind]) ELSE 0
        fallback   == [kind |-> "q", artist |-> <<>>,
                       text |-> clean_query(Strip(w.artist \o <<" ">> \o w.album \o <<" ">>
                                                  \o w.title \o <<" ">> \o w.catalog_number))]
        queries    == IF count = 0 /\ structured THEN <<first, fallback>> ELSE <<first>>
        results    == catalog.answers[queries[Len(queries)].kind]
        fetched    == SubSeq(results, 1, IF Len(results) > FetchLimit THEN FetchLimit
                                         ELSE Len(results))
        sorted     == StableSort([i \in DOMAIN fetched |-> ToMatch(fetched[i])], WorkerBefore)
        matches    == SubSeq(sorted, 1, IF Len(sorted) > ShowLimit THEN ShowLimit
                                        ELSE Len(sorted))
    IN  IF first.kind = "q" /\ first.text = <<>>
        THEN [queries |-> <<>>, signal |-> "error", matches |-> <<>>,
              message |-> "No search criteria provided"]
        ELSE IF catalog.fault # "none"
        THEN [queries |-> queries, signal |-> "error", matches |-> <<>>,
              message |-> IF catalog.fault = "401"
                          THEN "Discogs API Token is invalid or has expired. Please check your token in Settings."
                          ELSE catalog.fault]
        ELSE [queries |-> queries, signal |-> "finished", matches |-> matches,
              message |-> ""]

-----------------------------------------------------------------------------
(* DiscogsMatchDialog.__init__: the rows of the table, in order *)

\* the order of self.matches.sort(key=..., reverse=True) with the score left
\* as the only key: the faulty variant that C9 tells from the code
DialogBeforeByScore(x, y) == Greater(x.score, y.score)

\* the order of self.matches.sort(key=lambda m: (m.get('is_cd', False),
\* m.get('_calculated_score', 0)), reverse=True)
DialogBefore(x, y) ==
    \/ x.is_cd /\ ~y.is_cd
    \/ x.is_cd = y.is_cd /\ Greater(x.score, y.score)

DiscogsMatchDialog(matches, query_info) ==
    LET target(m) == m.artists \o <<" ", "-", " ">> \o m.title
        scored == [i \in DOMAIN matches |->
                      [id |-> matches[i].id, is_cd |-> matches[i].is_cd,
                       year |-> matches[i].year,
                       score |-> IF query_info # <<>>
                                 THEN ratio(Lower(query_info), Lower(target(matches[i])))
                                 ELSE <<0, 1>>]]
    IN  StableSort(scored, DialogBefore)

-----------------------------------------------------------------------------
(* A search: the worker runs, and a handler of the main window shows its
   matches in the dialog. *)

SearchKinds == {"catno", "release_title", "track", "q"}

\* worker.start(): run() up to the signal it emits
WorkerRun ==
    /\ call.fn = "search" /\ ret = Pending
    /\ ret' = Returned([worker |-> run(call, call.catalog), dialog |-> FALSE,
                        query_info |-> <<>>, shown |-> <<>>])
    /\ UNCHANGED call
    /\ UNCHANGED notCallVars

\* the handler opens DiscogsMatchDialog on the matches received
ShowDialog(query_info) ==
    /\ call.fn = "search" /\ ret.done /\ ~ret.value.dialog
    /\ ret.value.worker.signal = "finished" /\ ret.value.worker.matches # <<>>
    /\ ret' = Returned([ret.value EXCEPT
                            !.dialog = TRUE,
                            !.query_info = query_info,
                            !.shown = DiscogsMatchDialog(ret.value.worker.matches, query_info)])
    /\ UNCHANGED call
    /\ UNCHANGED notCallVars

SpecSearch ==
    /\ LET FewReleases ==
               <<[id |-> 1, artists |-> <<<<"A", "b", " ", "(", "4", ")">>>>, title |-> <<"A", "b", " ", "-", " ", "X", "y">>, formats |-> <<<<"V", "i", "n", "y", "l">>>>, year |-> 2001],
                 [id |-> 2, artists |-> <<<<"A", "b">>>>, title |-> <<"X", "y">>, formats |-> <<<<"C", "D">>>>, year |-> 2005],
                 [id |-> 3, artists |-> <<<<"A", "b">>, <<"C", "d">>>>, title |-> <<"X", "y", "z">>, formats |-> <<<<"C", "D", "r">>, <<"A", "l", "b", "u", "m">>>>, year |-> 1999],
                 [id |-> 4, artists |-> <<>>, title |-> <<"Q">>, formats |-> <<>>, year |-> 1999]>>
           ManyReleases ==
               [i \in 1..(FetchLimit + 2) |->
                   [id |-> 100 + i, artists |-> <<<<"A", "b">>>>, title |-> <<"X", "y">>,
                    formats |-> IF i \in {FetchLimit - 1, FetchLimit + 1} THEN <<<<"C", "D">>>> ELSE <<<<"V", "i", "n", "y", "l">>>>,
                    year |-> 1990 + ((i * 7) % 5)]]
           Catalogs ==
               {[answers |-> a, fault |-> "none"] : a \in [SearchKinds -> {<<>>, FewReleases, ManyReleases}]} \cup
               {[answers |-> [k \in SearchKinds |-> <<>>], fault |-> f] : f \in {"401", "timed out"}}
       IN  /\ TagIdle /\ MatchIdle
           /\ call \in [fn : {"search"},
                        artist : {<<>>, <<"A", "b">>},
                        title : {<<>>, <<"X", "y">>, <<"R", "e", "m", "i", "x">>},
                        album : {<<>>, <<"L", "p">>},
                        catalog_number : {<<>>, <<"C", "1">>},
                        catalog : Catalogs]
           /\ ret = Pending
    /\ [][\/ WorkerRun
          \/ \E query_info \in {<<>>, <<"a", "b", " ", "-", " ", "x", "y", "z">>} :
                ShowDialog(query_info)]_vars

-----------------------------------------------------------------------------
(* Claims about the search (checked under SpecSearch) *)

\* the tiers of the query precedence whose fields the worker was given, in order
KnownTiers(w) ==
    SelectSeq(<<"catno", "release_title", "track", "q">>,
              LAMBDA k : \/ k = "catno" /\ w.catalog_number # <<>>
                         \/ k = "release_title" /\ w.album # <<>>
                         \/ k = "track" /\ w.artist # <<>> /\ w.title # <<>>
                         \/ k = "q")

\* the kinds of the searches a finished worker made, in order
QueryKinds == [i \in DOMAIN ret.value.worker.queries |-> ret.value.worker.queries[i].kind]

\* C6 (as stated): the worker goes down the precedence catalog number >
\* album+artist > artist+title > free text one tier at a time: it tries each
\* tier whose fields are known, in order, and stops at the first tier that
\* returned at least one candidate.
C6_TierByTier ==
    (call.fn = "search" /\ ret.done /\ ret.value.worker.signal = "finished") =>
        LET RECURSIVE cascade(_)
            cascade(tiers) ==
                IF tiers = <<>> THEN <<>>
                ELSE IF call.catalog.answers[Head(tiers)] # <<>> THEN <<Head(tiers)>>
                ELSE <<Head(tiers)>> \o cascade(Tail(tiers))
        IN  QueryKinds = cascade(KnownTiers(call))

\* C6 (amended): the worker makes one search, that of the first tier of the
\* precedence whose fields are known; if that search is a structured one and
\* returned no candidate it makes one more, the free-text search, passing over
\* the tiers in between.  No other search is made.
C6_FirstKnownTierThenFreeText ==
    (call.fn = "search" /\ ret.done /\ ret.value.worker.signal = "finished") =>
        LET top == Head(KnownTiers(call))
        IN  QueryKinds = IF top # "q" /\ call.catalog.answers[top] = <<>>
                         THEN <<top, "q">>
                         ELSE <<top>>

\* C6 witness: every field known, no candidate for the catalog number, some
\* for the album: the worker went from the catalog number to free text
C6_Witness ==
    /\ call.fn = "search" /\ ret.done /\ ret.value.worker.signal = "finished"
    /\ Len(KnownTiers(call)) = 4
    /\ call.catalog.answers["catno"] = <<>>
    /\ call.catalog.answers["release_title"] # <<>>
    /\ QueryKinds = <<"catno", "q">>

\* the results of the search whose matches the dialog shows, in catalog order
ShownFrom == call.catalog.answers[QueryKinds[Len(QueryKinds)]]

\* the place of release id in the order in which the catalog returned it
CatalogPlace(id) == CHOOSE i \in DOMAIN ShownFrom : ShownFrom[i].id = id

SameRank(x, y) == x.is_cd = y.is_cd /\ ~Greater(x.score, y.score) /\ ~Greater(y.score, x.score)

\* C9 (as stated): the rows of the dialog are ordered CD first, then by score
\* descending, and rows equal on both keep the order of the catalog.
C9_CdScoreCatalogOrder ==
    (call.fn = "search" /\ ret.done /\ ret.value.dialog) =>
        LET shown == ret.value.shown
        IN  \A i, j \in DOMAIN shown : i < j =>
                \/ shown[i].is_cd /\ ~shown[j].is_cd
                \/ shown[i].is_cd = shown[j].is_cd /\ Greater(shown[i].score, shown[j].score)
                \/ /\ SameRank(shown[i], shown[j])
                   /\ CatalogPlace(shown[i].id) < CatalogPlace(shown[j].id)

\* C9 (amended): the rows are ordered CD first, then by score descending; rows
\* equal on both are ordered by year ascending, and only rows equal in year too
\* keep the order of the catalog.  The rows are at most ShowLimit, all taken
\* from the first FetchLimit results of the catalog.
C9_CdScoreYearCatalogOrder ==
    (call.fn = "search" /\ ret.done /\ ret.value.dialog) =>
        LET shown == ret.value.shown
        IN  /\ Len(shown) <= ShowLimit
            /\ \A i \in DOMAIN shown : CatalogPlace(shown[i].id) <= FetchLimit
            /\ \A i, j \in DOMAIN shown : i < j =>
                \/ shown[i].is_cd /\ ~shown[j].is_cd
                \/ shown[i].is_cd = shown[j].is_cd /\ Greater(shown[i].score, shown[j].score)
                \/ /\ SameRank(shown[i], shown[j])
                   /\ \/ shown[i].year < shown[j].year
                      \/ /\ shown[i].year = shown[j].year
                         /\ CatalogPlace(shown[i].id) < CatalogPlace(shown[j].id)

\* C9 witness: a dialog of ShowLimit rows, scored against a query, in which a
\* row stands ahead of a row of equal rank that the catalog returned before it
C9_Witness ==
    /\ call.fn = "search" /\ ret.done /\ ret.value.dialog
    /\ ret.value.query_info # <<>>
    /\ Len(ret.value.shown) = ShowLimit
    /\ \E i, j \in DOMAIN ret.value.shown :
           /\ i < j
           /\ SameRank(ret.value.shown[i], ret.value.shown[j])
           /\ CatalogPlace(ret.value.shown[i].id) > CatalogPlace(ret.value.shown[j].id)

-----------------------------------------------------------------------------
(* The tracklist of a release and the choice of the entry that matches a local
   title (main_window.py: the loop `for dt in discogs_tracks`). *)

Digits == <<"0", "1", "2", "3", "4", "5", "6", "7", "8", "9">>

\* the entry that get_release_data appends to tracklist_data for a track t of
\* the release: a dict, with the duration "mm:ss" or "h:mm:ss" in seconds
TrackEntry(t) ==
    LET RECURSIVE split(_, _)
        split(s, part) ==
            IF s = <<>> THEN <<part>>
            ELSE IF s[1] = ":" THEN <<part>> \o split(Tail(s), <<>>)
            ELSE split(Tail(s), Append(part, s[1]))
        isInt(s) == s # <<>> /\ \A i \in DOMAIN s : \E d \in DOMAIN Digits : Digits[d] = s[i]
        RECURSIVE int(_)
        int(s) == IF s = <<>> THEN 0
                  ELSE 10 * int(Slice(s, 1, Len(s)))
                        + (CHOOSE d \in DOMAIN Digits : Digits[d] = s[Len(s)]) - 1
        parts == split(t.duration, <<>>)
        duration_sec ==
            IF t.duration = <<>> \/ \E i \in DOMAIN parts : ~isInt(parts[i]) THEN 0
            ELSE IF Len(parts) = 2 THEN int(parts[1]) * 60 + int(parts[2])
            ELSE IF Len(parts) = 3 THEN int(parts[1]) * 3600 + int(parts[2]) * 60 + int(parts[3])
            ELSE 0
    IN  [title |-> t.title, position |-> t.position, duration |-> t.duration,
         duration_seconds |-> duration_sec, artists |-> JoinComma(t.artists)]

\* str(dt) of such a dict, for values without quotes or backslashes
str_dict(dt) ==
    LET RECURSIVE str(_)
        str(n) == IF n < 10 THEN <<Digits[n + 1]>>
                  ELSE str(n \div 10) \o <<Digits[(n % 10) + 1]>>
        quoted(s) == <<"'">> \o s \o <<"'">>
    IN  <<"{", "'", "t", "i", "t", "l", "e", "'", ":", " ">> \o quoted(dt.title)
        \o <<",", " ", "'", "p", "o", "s", "i", "t", "i", "o", "n", "'", ":", " ">> \o quoted(dt.position)
        \o <<",", " ", "'", "d", "u", "r", "a", "t", "i", "o", "n", "'", ":", " ">> \o quoted(dt.duration)
        \o <<",", " ", "'", "d", "u", "r", "a", "t", "i", "o", "n", "_", "s", "e", "c", "o", "n", "d", "s", "'", ":", " ">> \o str(dt.duration_seconds)
        \o <<",", " ", "'", "a", "r", "t", "i", "s", "t", "s", "'", ":", " ">> \o quoted(dt.artists) \o <<"}">>

\* hasattr(dt, name) for an entry of the tracklist: the entries are dicts,
\* whose keys are not attributes
hasattr(dt, name) == FALSE

\* the loop over discogs_tracks: the score of every entry, the first entry of
\* the greatest score above 0 (0 when there is none) and its score
BestMatch(title, discogs_tracks) ==
    LET dt_title(dt) == IF hasattr(dt, "title") THEN dt.title ELSE str_dict(dt)
        scores == [i \in DOMAIN discogs_tracks |->
                      ratio(Lower(title), Lower(dt_title(discogs_tracks[i])))]
        winners == {i \in DOMAIN scores :
                       /\ scores[i][1] > 0
                       /\ \A j \in DOMAIN scores : ~Greater(scores[j], scores[i])}
        best == IF winners = {} THEN 0 ELSE CHOOSE i \in winners : \A j \in winners : i <= j
    IN  [scores |-> scores, best_match |-> best,
         best_score |-> IF best = 0 THEN <<0, 1>> ELSE scores[best]]

\* the most entries of a tracklist
MaxTracklist == 2

\* the tracklist is fetched and the best entry for the local title chosen
ChooseTrack ==
    /\ call.fn = "best_match" /\ ret = Pending
    /\ LET tracklist == [i \in DOMAIN call.release |-> TrackEntry(call.release[i])]
       IN  ret' = Returned([tracklist |-> tracklist,
                            match |-> BestMatch(call.title, tracklist)])
    /\ UNCHANGED call
    /\ UNCHANGED notCallVars

ScoreInit ==
    /\ TagIdle /\ MatchIdle
    /\ call \in [fn : {"best_match"},
                 title : {<<"X", "y">>, <<"x", "y", " ", "2">>, <<"Q">>},
                 duration_seconds : {0, 100},
                 release : UNION {[1..n ->
                     [title : {<<"X", "y">>, <<"Z", "z">>}, position : {<<"A", "1">>},
                      duration : {<<>>, <<"1", ":", "4", "2">>, <<"2", ":", "0", "0">>, <<"1", ":", "0", "x">>},
                      artists : {<<>>}]] : n \in 0..MaxTracklist}]
    /\ ret = Pending

SpecScore ==
    ScoreInit /\ [][ChooseTrack]_vars

\* C8: three-band duration policy.  Of two entries with the same title and
\* artists (hence the same text score), one within 4 seconds of the local
\* duration and one more than 15 seconds away from it, both durations known,
\* the one within 4 seconds has the strictly higher score.
C8_DurationBands ==
    (call.fn = "best_match" /\ ret.done /\ call.duration_seconds > 0) =>
        LET entries == ret.value.tracklist
            away(i) == IF entries[i].duration_seconds >= call.duration_seconds
                       THEN entries[i].duration_seconds - call.duration_seconds
                       ELSE call.duration_seconds - entries[i].duration_seconds
        IN  \A i, j \in DOMAIN entries :
                (/\ entries[i].title = entries[j].title
                 /\ entries[i].artists = entries[j].artists
                 /\ entries[i].duration_seconds > 0 /\ entries[j].duration_seconds > 0
                 /\ away(i) <= 4 /\ away(j) > 15)
                => Greater(ret.value.match.scores[i], ret.value.match.scores[j])

-----------------------------------------------------------------------------
(* The Discogs match handlers of the main window: _on_match_discogs_track,
   _on_match_discogs_album and _on_match_discogs_auto.  The tag values of a
   track are strings; Chars gives the characters of those the handlers look
   into. *)

\* the rows of the library
NTracks == 2

Chars ==
    ("Xy" :> <<"X", "y">>) @@ ("a.flac" :> <<"a", ".", "f", "l", "a", "c">>) @@
    ("b.flac" :> <<"b", ".", "f", "l", "a", "c">>) @@ ("b.mp4" :> <<"b", ".", "m", "p", "4">>) @@ ("A1" :> <<"A", "1">>)

\* the files a row of the library may hold
LibraryFiles ==
    {[name |-> "a.flac", ext |-> ".flac", hasId3 |-> TRUE, pics |-> <<>>,
      tags |-> ("ARTIST" :> <<"Ab">>) @@ ("TITLE" :> <<"Xy">>) @@ ("GENRE" :> <<"Rock">>)
               @@ ("LABEL" :> <<"OldLabel">>)],
     [name |-> "b.flac", ext |-> ".flac", hasId3 |-> TRUE, tags |-> EmptyDict,
      pics |-> <<[desc |-> "", mime |-> "image/jpeg", data |-> "old1"]>>],
     [name |-> "b.mp4", ext |-> ".mp4", hasId3 |-> TRUE, tags |-> EmptyDict, pics |-> <<>>]}

ReleaseIds == {"r1", "r2"}

\* what get_release_data returns for each release of the catalog
ReleaseData(release_id) ==
    IF release_id = "r1"
    THEN [artists |-> "New", album |-> "Lp", year |-> "1999", genre |-> "", label |-> " ",
          catalog_number |-> "", compilation |-> "0", cover_image |-> "",
          tracklist |-> <<>>]
    ELSE [artists |-> "", album |-> "Lp2", year |-> "", genre |-> "House", label |-> "Lbl",
          catalog_number |-> "C1", compilation |-> "1", cover_image |-> "uri",
          tracklist |-> <<TrackEntry([title |-> Chars["Xy"], position |-> Chars["A1"],
                                      duration |-> <<>>, artists |-> <<>>])>>]

\* the tag fields that the handlers take from the release, with the key of
\* release_data each comes from
ReleaseFields ==
    <<[key |-> KEY_ARTIST, from |-> "artists"], [key |-> KEY_ALBUM, from |-> "album"],
      [key |-> KEY_YEAR, from |-> "year"], [key |-> KEY_GENRE, from |-> "genre"],
      [key |-> KEY_LABEL, from |-> "label"], [key |-> KEY_CATALOG, from |-> "catalog_number"],
      [key |-> KEY_COMPILATION, from |-> "compilation"]>>

\* title = track.metadata.get('title', '') or track.filename
LocalTitle(track) ==
    IF Truthy(Get(track.metadata, KEY_TITLE, "")) THEN track.metadata[KEY_TITLE]
    ELSE track.filename

\* the entry of the tracklist that the handler accepts for the local title:
\* `if best_match and best_score > 0.5`, 0 when there is none
GoodMatch(title, discogs_tracks) ==
    LET m == BestMatch(Chars[title], discogs_tracks)
    IN  IF m.best_match # 0 /\ Greater(m.best_score, <<1, 2>>) THEN m.best_match ELSE 0

\* _on_match_discogs_track: proposed; `best` is the entry of the tracklist
\* accepted for the local title, GoodMatch(title, release_data.tracklist)
Proposed(release_data, best) ==
    LET RECURSIVE fill(_, _)
        fill(proposed, fields) ==
            IF fields = <<>> THEN proposed
            ELSE fill(IF Truthy(release_data[Head(fields).from])
                      THEN Put(proposed, Head(fields).key, release_data[Head(fields).from])
                      ELSE proposed,
                      Tail(fields))
        base == fill(EmptyDict, ReleaseFields)
    IN  IF /\ best # 0
           /\ hasattr(release_data.tracklist[best], "position")
           /\ release_data.tracklist[best].position # <<>>
        THEN Put(base, KEY_TRACK, release_data.tracklist[best].position)
        ELSE base

\* update_if_present writing whatever the release holds: the faulty variant
\* that C4 tells from the code
update_always(metadata, key, val) == Put(metadata, key, Str(val))

\* update_if_present of the album and auto handlers; the loop over proposed of
\* the track handler makes the same test.  str(val).strip() is empty, among the
\* values explored, for "" and " "
update_if_present(metadata, key, val) ==
    IF Truthy(val) /\ Str(val) \notin {"", " "} THEN Put(metadata, key, Str(val))
    ELSE metadata

\* _on_match_discogs_track: `for key, val in proposed.items()`
RECURSIVE ApplyProposed(_, _, _)
ApplyProposed(metadata, proposed, keys) ==
    IF keys = {} THEN metadata
    ELSE LET key == CHOOSE k \in keys : TRUE
         IN  ApplyProposed(update_if_present(metadata, key, proposed[key]), proposed,
                           keys \ {key})

\* the album and auto handlers: the update_if_present calls (all fields of
\* ReleaseFields but the compilation), then the track number or title of the
\* matching entry of the tracklist, `best`, which is
\* GoodMatch(title, release_data.tracklist)
ApplyRelease(metadata, release_data, best, mode) ==
    LET RECURSIVE update(_, _)
        update(md, fields) ==
            IF fields = <<>> THEN md
            ELSE update(update_if_present(md, Head(fields).key, release_data[Head(fields).from]),
                        Tail(fields))
        md1  == update(metadata, SubSeq(ReleaseFields, 1, 6))
        dt   == release_data.tracklist[best]
    IN  IF best = 0 THEN md1
        ELSE IF mode = "album"
        THEN LET md2 == IF hasattr(dt, "title") THEN Put(md1, KEY_TITLE, dt.title) ELSE md1
             IN  IF hasattr(dt, "position") THEN Put(md2, KEY_TRACK, dt.position) ELSE md2
        ELSE IF hasattr(dt, "position") /\ dt.position # <<>>
             THEN Put(md1, KEY_TRACK, dt.position)
             ELSE md1

\* the rows selected in the file list, in row order
Selections ==
    LET RECURSIVE ordered(_)
        ordered(S) == IF S = {} THEN <<>>
                      ELSE LET least == CHOOSE r \in S : \A x \in S : r <= x
                           IN  <<least>> \o ordered(S \ {least})
    IN  {ordered(S) : S \in (SUBSET (1..NTracks)) \ {{}}}

\* the closing of MetadataPreviewDialog counted as an approval unless the user
\* pressed "Skip Track": the faulty variant that C5 tells from the code
PreviewNotSkipped(answer) == answer # "skip"

\* preview.exec() == QDialog.Accepted and preview.was_approved(): the user
\* pressed "Apply Changes" (answer "apply"), not "Skip Track" ("skip") nor
\* closed the dialog ("close")
PreviewApproved(answer) == answer = "apply"

\* track.metadata is replaced by `metadata` and saved with the cover downloaded
\* (if any); the session goes on as `next`
SaveTrack(row, metadata, next) ==
    LET cover == IF next.artwork
                 THEN [path |-> "temp_discogs_cover.jpg", exists |-> TRUE, data |-> "new"]
                 ELSE NoCover
    IN  /\ tracks' = [tracks EXCEPT ![row].metadata = metadata]
        /\ disk' = [disk EXCEPT ![row] = save_tags(disk[row], metadata, cover).file]
        /\ session' = [next EXCEPT !.queue = Tail(@), !.outcome[row] = "applied",
                                   !.applied[row] = next.release_id]
        /\ UNCHANGED notMatchVars

\* the track at the head of the queue is passed over
SkipTrack ==
    /\ session' = [session EXCEPT !.queue = Tail(@), !.outcome[Head(session.queue)] = "skipped"]
    /\ UNCHANGED <<tracks, disk>>
    /\ UNCHANGED notMatchVars

\* a handler is called with `rows` selected; it returns at once without a
\* token, when the album handler has fewer than two rows, or when the user
\* answers No to the question of the auto handler
StartHandler(mode, rows, token, reply) ==
    /\ session.mode = "idle"
    /\ session' =
          IF ~token \/ (mode = "album" /\ Len(rows) < 2) \/ (mode = "auto" /\ reply # "yes")
          THEN [session EXCEPT !.mode = mode, !.phase = "done",
                               !.reply = IF mode = "auto" /\ token THEN reply ELSE "none"]
          ELSE [session EXCEPT !.mode = mode, !.queue = rows,
                               !.phase = IF mode = "album" THEN "select" ELSE "find",
                               !.reply = IF mode = "auto" THEN reply ELSE "none"]
    /\ UNCHANGED <<tracks, disk>>
    /\ UNCHANGED notMatchVars

(* _on_match_discogs_track, one track: auto_match returns `auto`; without it
   the user picks `picked` in DiscogsMatchDialog (None when the search fails
   or finds nothing, or the dialog is cancelled); get_release_data succeeds
   when `fetched`.  The track is passed over or its preview is shown. *)
TrackFind(auto, picked, fetched) ==
    /\ session.mode = "track" /\ session.phase = "find" /\ session.queue # <<>>
    /\ LET release_id == IF auto # None THEN auto ELSE picked
       IN  IF release_id = None \/ ~fetched
           THEN SkipTrack
           ELSE /\ session' = [session EXCEPT
                       !.phase = "preview", !.release_id = release_id,
                       !.proposed = Proposed(ReleaseData(release_id),
                                      GoodMatch(LocalTitle(tracks[Head(session.queue)]),
                                                ReleaseData(release_id).tracklist))]
                /\ UNCHANGED <<tracks, disk>>
                /\ UNCHANGED notMatchVars

\* MetadataPreviewDialog is answered; on approval the proposed values are
\* applied and the track saved, with the cover if it could be downloaded
TrackPreview(answer, downloaded) ==
    /\ session.mode = "track" /\ session.phase = "preview"
    /\ LET row  == Head(session.queue)
           next == [session EXCEPT !.answer[row] = answer, !.phase = "find",
                        !.artwork = /\ ReleaseData(session.release_id).cover_image # ""
                                    /\ downloaded]
       IN  IF PreviewApproved(answer)
           THEN SaveTrack(row, ApplyProposed(tracks[row].metadata, session.proposed,
                                             DOMAIN session.proposed), next)
           ELSE /\ session' = [next EXCEPT !.queue = Tail(@), !.outcome[row] = "skipped",
                                           !.artwork = FALSE]
                /\ UNCHANGED <<tracks, disk>>
                /\ UNCHANGED notMatchVars

(* _on_match_discogs_album up to the loop: the user picks `picked` in
   DiscogsMatchDialog (None when the search fails or finds nothing, or the
   dialog is cancelled); get_release_data succeeds when `fetched`; the cover
   is downloaded once. *)
AlbumSelect(picked, fetched, downloaded) ==
    /\ session.mode = "album" /\ session.phase = "select"
    /\ session' =
          IF picked = None \/ ~fetched
          THEN [session EXCEPT !.phase = "done", !.queue = <<>>, !.selected = picked]
          ELSE [session EXCEPT !.phase = "find", !.selected = picked, !.release_id = picked,
                    !.artwork = ReleaseData(picked).cover_image # "" /\ downloaded]
    /\ UNCHANGED <<tracks, disk>>
    /\ UNCHANGED notMatchVars

\* _on_match_discogs_album, one turn of the loop over tracks_data
AlbumApply ==
    /\ session.mode = "album" /\ session.phase = "find" /\ session.queue # <<>>
    /\ LET row == Head(session.queue)
       IN  SaveTrack(row, ApplyRelease(tracks[row].metadata, ReleaseData(session.release_id),
                                       GoodMatch(LocalTitle(session.before.tracks[row]),
                                                 ReleaseData(session.release_id).tracklist),
                                       "album"),
                     session)

(* _on_match_discogs_auto, one turn of the loop: the progress dialog may have
   been cancelled; auto_match returns `auto`; get_release_data succeeds when
   `fetched`; the cover is downloaded for this track. *)
AutoStep(canceled, auto, fetched, downloaded) ==
    /\ session.mode = "auto" /\ session.phase = "find" /\ session.queue # <<>>
    /\ LET row == Head(session.queue)
       IN  IF canceled
           THEN /\ session' = [session EXCEPT !.queue = <<>>]
                /\ UNCHANGED <<tracks, disk>>
                /\ UNCHANGED notMatchVars
           ELSE IF auto = None \/ ~fetched
           THEN SkipTrack
           ELSE SaveTrack(row, ApplyRelease(tracks[row].metadata, ReleaseData(auto),
                                            GoodMatch(LocalTitle(tracks[row]),
                                                      ReleaseData(auto).tracklist),
                                            "auto"),
                          [session EXCEPT !.release_id = auto,
                               !.artwork = ReleaseData(auto).cover_image # "" /\ downloaded])

\* the loop of a handler is over
Finish ==
    /\ session.phase = "find" /\ session.queue = <<>>
    /\ session' = [session EXCEPT !.phase = "done"]
    /\ UNCHANGED <<tracks, disk>>
    /\ UNCHANGED notMatchVars

MatchInit ==
    /\ TagIdle /\ CallIdle
    /\ disk \in [1..NTracks -> LibraryFiles]
    /\ tracks = [row \in 1..NTracks |->
                    [filename |-> disk[row].name,
                     metadata |-> load_tags(disk[row], [cat |-> "", comm |-> "", pic |-> 0])]]
    /\ session = [mode |-> "idle", phase |-> "idle", queue |-> <<>>, release_id |-> None,
                  proposed |-> EmptyDict, artwork |-> FALSE, selected |-> None,
                  reply |-> "none",
                  answer |-> [row \in 1..NTracks |-> "none"],
                  outcome |-> [row \in 1..NTracks |-> "pending"],
                  applied |-> [row \in 1..NTracks |-> None],
                  before |-> [tracks |-> tracks, disk |-> disk]]

SpecMatch ==
    MatchInit /\ [][\/ \E mode \in {"track", "album", "auto"}, rows \in Selections, token \in BOOLEAN,
                          reply \in {"yes", "no"} : StartHandler(mode, rows, token, reply)
                    \/ \E auto, picked \in ReleaseIds \cup {None}, fetched \in BOOLEAN :
                          TrackFind(auto, picked, fetched)
                    \/ \E answer \in {"apply", "skip", "close"}, downloaded \in BOOLEAN :
                          TrackPreview(answer, downloaded)
                    \/ \E picked \in ReleaseIds \cup {None}, fetched, downloaded \in BOOLEAN :
                          AlbumSelect(picked, fetched, downloaded)
                    \/ AlbumApply
                    \/ \E canceled, fetched, downloaded \in BOOLEAN, auto \in ReleaseIds \cup {None} :
                          AutoStep(canceled, auto, fetched, downloaded)
                    \/ Finish]_vars

\* the release offers a value for field `key` of the track in `row`: a truthy
\* value of release_data (the compilation only in the track handler), or an
\* entry of the tracklist for the track number and the title
Offered(row, key) ==
    LET data == ReleaseData(session.applied[row])
    IN  \/ \E i \in DOMAIN ReleaseFields :
              /\ ReleaseFields[i].key = key
              /\ key = KEY_COMPILATION => session.mode = "track"
              /\ Truthy(data[ReleaseFields[i].from])
        \/ key \in {KEY_TRACK, KEY_TITLE} /\ data.tracklist # <<>>

\* the field `key` of the track in `row` is as it was when the handler started
SameField(row, key) ==
    LET old == session.before.tracks[row].metadata
        new == tracks[row].metadata
    IN  /\ key \in DOMAIN new <=> key \in DOMAIN old
        /\ key \in DOMAIN old => new[key] = old[key]

(* C4: in the track, album and auto handlers alike, a release applied to a
   track leaves every field for which it offers no value, an empty value or a
   falsy value as it was before the apply. *)
C4_UnofferedFieldsKept ==
    \A row \in 1..NTracks :
        session.outcome[row] = "applied" =>
            \A key \in AllFields : ~Offered(row, key) => SameField(row, key)

\* C4 witness: release r1, whose genre is empty, has been applied to a track
\* whose genre was Rock; the artist was overwritten and the genre is still Rock
C4_Witness ==
    \E row \in 1..NTracks :
        /\ session.outcome[row] = "applied" /\ session.applied[row] = "r1"
        /\ Get(session.before.tracks[row].metadata, KEY_GENRE, "") = "Rock"
        /\ Get(tracks[row].metadata, KEY_GENRE, "") = "Rock"
        /\ Get(tracks[row].metadata, KEY_ARTIST, "") = "New"

\* the tag record of the track in `row`, or its file, is no longer what it was
\* when the handler started
Changed(row) ==
    \/ tracks[row] # session.before.tracks[row]
    \/ disk[row] # session.before.disk[row]

(* C5 as the specification states it: in every handler a track's tag record
   and file change only after the user approved the preview of that track,
   and a track that was skipped keeps its tags. *)
C5_ChangedOnlyAfterTrackApproval ==
    \A row \in 1..NTracks :
        /\ Changed(row) => session.answer[row] = "apply"
        /\ session.outcome[row] = "skipped" => ~Changed(row)

(* C5 as the code has it: a track's tag record and file change only after the
   user approved the preview of that track in the track handler, after the
   user selected a release for the whole selection in the album handler, or
   after the user answered Yes to the one question of the auto handler; a
   track that was skipped keeps its tags and its file. *)
C5_ChangedOnlyAfterHandlerApproval ==
    \A row \in 1..NTracks :
        /\ Changed(row) =>
              \/ session.mode = "track" /\ session.answer[row] = "apply"
              \/ session.mode = "album" /\ session.selected # None
              \/ session.mode = "auto" /\ session.reply = "yes"
        /\ session.outcome[row] = "skipped" => ~Changed(row)

\* C5 witness: the album handler has changed a track whose preview was never
\* shown
C5_Witness ==
    \E row \in 1..NTracks :
        /\ Changed(row) /\ session.outcome[row] = "applied"
        /\ session.mode = "album" /\ session.answer[row] = "none"

(* ------------------------------------------------------------------------
   MetadataManager.resolve_format and parse_filename.  The format string, the
   filename and the tag values are sequences of characters.
   ------------------------------------------------------------------------ *)

\* the placeholders with the tag key of each, in the order of the dicts
\* `mapping` and `placeholders`
placeholders ==
    <<[placeholder |-> <<"%", "a", "r", "t", "i", "s", "t", "%">>,
       key |-> KEY_ARTIST],
      [placeholder |-> <<"%", "t", "i", "t", "l", "e", "%">>,
       key |-> KEY_TITLE],
      [placeholder |-> <<"%", "a", "l", "b", "u", "m", "%">>,
       key |-> KEY_ALBUM],
      [placeholder |-> <<"%", "y", "e", "a", "r", "%">>,
       key |-> KEY_YEAR],
      [placeholder |-> <<"%", "t", "r", "a", "c", "k", "%">>,
       key |-> KEY_TRACK],
      [placeholder |-> <<"%", "g", "e", "n", "r", "e", "%">>,
       key |-> KEY_GENRE],
      [placeholder |-> <<"%", "c", "o", "m", "m", "e", "n", "t", "%">>,
       key |-> KEY_COMMENT]>>

\* the key of the placeholder `part`, "" when part is no placeholder
PlaceholderKey(part) ==
    IF \E i \in DOMAIN placeholders : placeholders[i].placeholder = part
    THEN placeholders[CHOOSE i \in DOMAIN placeholders : placeholders[i].placeholder = part].key
    ELSE ""

\* s.replace(old, new)
replace(s, old, new) ==
    LET RECURSIVE from(_)
        from(i) == IF i > Len(s) THEN <<>>
                   ELSE IF MatchesAt(s, old, i) THEN new \o from(i + Len(old))
                   ELSE <<s[i]>> \o from(i + 1)
    IN  from(1)

resolve_format(format_str, tags) ==
    LET RECURSIVE substitute(_, _)
        substitute(result, i) ==
            IF i > Len(placeholders) THEN result
            ELSE substitute(replace(result, placeholders[i].placeholder,
                                    Get(tags, placeholders[i].key, <<>>)),
                            i + 1)
    IN  substitute(format_str, 1)

\* os.path.splitext(p)[0] of posixpath: p up to its last dot, when that dot
\* comes after the last "/" and after a character of the basename that is no dot
splitext_root(p) ==
    LET last(c)  == IF \E i \in DOMAIN p : p[i] = c
                    THEN CHOOSE i \in DOMAIN p : p[i] = c /\ \A j \in DOMAIN p : p[j] = c => j <= i
                    ELSE 0
        sepIndex == last("/")
        dotIndex == last(".")
    IN  IF dotIndex > sepIndex /\ \E k \in (sepIndex + 1)..(dotIndex - 1) : p[k] # "."
        THEN SubSeq(p, 1, dotIndex - 1)
        ELSE p

\* re.split(r'(%[a-z]+%)', s): the texts around the matches and the matches,
\* in turn, beginning and ending with a text
re_split(s) ==
    LET isLower(c) == \E i \in DOMAIN LowerCase : LowerCase[i] = c
        RECURSIVE letters(_)
        letters(j) == IF j <= Len(s) /\ isLower(s[j]) THEN letters(j + 1) ELSE j
        \* where the match that begins at i ends, 0 when none begins there
        matchEnd(i) == IF s[i] = "%" /\ letters(i + 1) > i + 1
                          /\ letters(i + 1) <= Len(s) /\ s[letters(i + 1)] = "%"
                       THEN letters(i + 1) ELSE 0
        RECURSIVE scan(_, _)
        scan(start, i) ==
            IF i > Len(s) THEN <<SubSeq(s, start, Len(s))>>
            ELSE IF matchEnd(i) = 0 THEN scan(start, i + 1)
            ELSE <<SubSeq(s, start, i - 1), SubSeq(s, i, matchEnd(i))>>
                     \o scan(matchEnd(i) + 1, matchEnd(i) + 1)
    IN  scan(1, 1)

\* every group greedy: the faulty variant that C10 tells from the code
every_placeholder_last(parts, i) == TRUE

\* is_last_placeholder: the placeholder is the last part, or the last but one
\* before an empty last part
is_last_placeholder(parts, i) ==
    i = Len(parts) \/ (i = Len(parts) - 1 /\ parts[Len(parts)] = <<>>)

\* the pattern built from the parts: a named group of "." for a placeholder,
\* greedy or not, and the escaped text for anything else
Pattern(parts) ==
    [i \in DOMAIN parts |->
        IF PlaceholderKey(parts[i]) # ""
        THEN [group |-> PlaceholderKey(parts[i]), greedy |-> is_last_placeholder(parts, i),
              digits |-> FALSE, text |-> <<>>]
        ELSE [group |-> "", greedy |-> FALSE, digits |-> FALSE, text |-> parts[i]]]

(* re.match("^" + pattern + "$", name): the first way, in the order of the
   backtracking, to consume the whole of `name`: a non-greedy group tries the
   shortest run of one character or more first, a greedy group the longest;
   a group of \d takes digits only.  The names hold no newline, which "." would refuse and "$" would allow
   before the end. *)
RECURSIVE re_match(_, _, _)
re_match(pattern, name, groups) ==
    IF pattern = <<>> THEN [matched |-> name = <<>>, groupdict |-> groups]
    ELSE LET p == Head(pattern)
             rest(n) == SubSeq(name, n + 1, Len(name))
             try(n) == re_match(Tail(pattern), rest(n), Put(groups, p.group, SubSeq(name, 1, n)))
             fits(n) == p.digits => \A k \in 1..n : \E d \in DOMAIN Digits : Digits[d] = name[k]
             runs == {n \in 1..Len(name) : fits(n) /\ try(n).matched}
         IN  IF p.group = ""
             THEN IF MatchesAt(name, p.text, 1)
                  THEN re_match(Tail(pattern), rest(Len(p.text)), groups)
                  ELSE [matched |-> FALSE, groupdict |-> groups]
             ELSE IF runs = {} THEN [matched |-> FALSE, groupdict |-> groups]
             ELSE try(CHOOSE n \in runs :
                         \A k \in runs : IF p.greedy THEN k <= n ELSE n <= k)

\* {} without a placeholder, when the pattern does not compile because a
\* group name is used twice (re.error, caught), and when nothing matches
parse_filename(format_str, filename) ==
    LET name_only == splitext_root(filename)
        pattern   == Pattern(re_split(format_str))
        found_any == \E i \in DOMAIN pattern : pattern[i].group # ""
        compiles  == \A i, j \in DOMAIN pattern :
                        (pattern[i].group # "" /\ pattern[i].group = pattern[j].group) => i = j
        match     == re_match(pattern, name_only, [k \in {} |-> <<>>])
    IN  IF found_any /\ compiles /\ match.matched THEN match.groupdict
        ELSE [k \in {} |-> <<>>]

\* resolve_format(format_str, tags) runs to its return
ResolveFormat ==
    /\ call.fn = "resolve_format" /\ ret = Pending
    /\ ret' = Returned(resolve_format(call.format_str, call.tags))
    /\ UNCHANGED call
    /\ UNCHANGED notCallVars

\* parse_filename is called with the same format string and the name that
\* resolve_format returned, and runs to its return; the record of the call
\* keeps the tags the name was made from
ParseFilename ==
    /\ call.fn = "resolve_format" /\ ret.done
    /\ call' = [fn |-> "parse_filename", format_str |-> call.format_str,
                filename |-> ret.value, tags |-> call.tags]
    /\ ret' = Returned(parse_filename(call.format_str, ret.value))
    /\ UNCHANGED notCallVars

\* the format strings explored, and the tags: a value for each of four fields,
\* '' among them
SpecFmt ==
    /\ LET FormatStrings ==
               {<<"%", "a", "r", "t", "i", "s", "t", "%", " ", "-", " ", "%", "t", "i", "t", "l", "e", "%">>,
                <<"%", "t", "r", "a", "c", "k", "%", ".", " ", "%", "t", "i", "t", "l", "e", "%">>,
                <<"%", "t", "i", "t", "l", "e", "%">>,
                <<"%", "a", "r", "t", "i", "s", "t", "%", " ", "-", " ", "%", "a", "r", "t", "i", "s", "t", "%">>,
                <<"%", "a", "r", "t", "i", "s", "t", "%", "%", "t", "i", "t", "l", "e", "%">>,
                <<"%", "t", "i", "t", "l", "e", "%", " ", "(", "%", "y", "e", "a", "r", "%", ")">>}
           FormatTags ==
               [{KEY_ARTIST, KEY_TITLE, KEY_TRACK, KEY_YEAR} -> {<<>>, <<"A", "b">>, <<"A", " ", "-", " ", "B">>, <<"a", ".", "b">>}]
       IN  /\ TagIdle /\ MatchIdle
           /\ call \in [fn : {"resolve_format"}, format_str : FormatStrings, tags : FormatTags]
           /\ ret = Pending
    /\ [][ResolveFormat \/ ParseFilename]_vars

\* the tag keys that the placeholders of the format string name
NamedKeys(format_str) ==
    {PlaceholderKey(re_split(format_str)[i]) : i \in DOMAIN re_split(format_str)} \ {""}

\* every placeholder of the format string is separated from the next by
\* literal text that is not empty
Separated(format_str) ==
    LET parts == re_split(format_str)
    IN  \A i \in DOMAIN parts : (i % 2 = 1 /\ 1 < i /\ i < Len(parts)) => parts[i] # <<>>

\* parse_filename has recovered, for every placeholder, the value that
\* resolve_format was given
Recovered ==
    \A key \in NamedKeys(call.format_str) :
        key \in DOMAIN ret.value /\ ret.value[key] = Get(call.tags, key, <<>>)

(* C10 as the specification states it: for every format string whose
   placeholders are separated by non-empty literal text, and every tag,
   parse_filename(format, resolve_format(format, tag)) recovers the value of
   every field that a placeholder names, whatever the value holds. *)
C10_RoundTrip ==
    (call.fn = "parse_filename" /\ Separated(call.format_str)) => Recovered

\* the format string and the tags for which the code recovers the values: no
\* placeholder twice, no "." and no "%" in the literal text or in a value, and
\* every value of one character or more, none of them a character of the
\* literal text that follows its placeholder
Recoverable(format_str, tags) ==
    LET parts == re_split(format_str)
        has(s, c) == \E i \in DOMAIN s : s[i] = c
    IN  /\ Separated(format_str)
        /\ \A i \in DOMAIN parts :
              IF i % 2 = 1
              THEN ~has(parts[i], ".") /\ ~has(parts[i], "%")
              ELSE LET value == Get(tags, PlaceholderKey(parts[i]), <<>>)
                   IN  /\ PlaceholderKey(parts[i]) # ""
                       /\ \A j \in DOMAIN parts : parts[j] = parts[i] => j = i
                       /\ value # <<>>
                       /\ ~has(value, ".") /\ ~has(value, "%")
                       /\ \A k \in DOMAIN value : ~has(parts[i + 1], value[k])

(* C10 as the code has it: parse_filename(format, resolve_format(format, tag))
   recovers the value of every field that a placeholder names when the
   placeholders are separated by non-empty literal text, no placeholder occurs
   twice, neither the literal text nor a value holds a dot or a percent sign,
   and every value is non-empty and shares no character with the literal text
   that follows its placeholder. *)
C10_RoundTripOfPlainValues ==
    (call.fn = "parse_filename" /\ Recoverable(call.format_str, call.tags)) => Recovered

\* C10 witness: "%artist% - %title%" with the title "A - B", which holds the
\* separator, and the artist "Ab": both recovered
C10_Witness ==
    /\ call.fn = "parse_filename"
    /\ Recoverable(call.format_str, call.tags)
    /\ Len(re_split(call.format_str)) = 5
    /\ call.tags[KEY_TITLE] = <<"A", " ", "-", " ", "B">>
    /\ ret.value = (KEY_ARTIST :> <<"A", "b">>) @@ (KEY_TITLE :> <<"A", " ", "-", " ", "B">>)

(* ------------------------------------------------------------------------
   DiscogsManager.clean_query called on its own.
   ------------------------------------------------------------------------ *)

\* clean_query(text) runs to its return
CleanQuery ==
    /\ call.fn = "clean_query" /\ ret = Pending
    /\ ret' = Returned(clean_query(call.text))
    /\ UNCHANGED call
    /\ UNCHANGED notCallVars

\* the texts explored: a head, a middle and a tail, joined
SpecClean ==
    /\ LET heads == {<<"D", "J", " ", "A", " ", "B", "2", "B", " ", "D", "J", " ", "B">>,
                     <<"A", " ", "b", "2", "b", " ", "B">>,
                     <<" ", "B", "2", "B", " ", "x">>,
                     <<>>}
           mids  == {<<>>,
                     <<" ", "-", " ", "L", "i", "v", "e", " ", "S", "e", "t">>,
                     <<" ", "(", "L", "i", "v", "e", " ", "S", "e", "t", ")">>,
                     <<" ", "[", "H", "Q", "]", " ", "x">>,
                     <<" ", "-", " ", "F", "u", "l", "l", " ", "S", "e", "t">>,
                     <<" ", " ", "R", "e", "m", "i", "x", " ">>}
           tails == {<<>>,
                     <<".", "m", "p", "3">>,
                     <<" ", "(", "D", "u", "b", ")">>,
                     <<"\t", "(", "x">>}
       IN  /\ TagIdle /\ MatchIdle
           /\ call \in {[fn |-> "clean_query", text |-> h \o m \o t] :
                           h \in heads, m \in mids, t \in tails}
           /\ ret = Pending
    /\ [][CleanQuery]_vars

\* C11 as the specification states it: clean_query("DJ A B2B DJ B - Live Set")
\* returns "DJ A DJ B".
C11_LiveSetExample ==
    (call.fn = "clean_query" /\ ret.done /\ call.text = 
            <<"D", "J", " ", "A", " ", "B", "2", "B", " ", "D", "J", " ", "B", " ", "-", " ", "L", "i", "v", "e", " ", "S", "e", "t">>) => ret.value = 
            <<"D", "J", " ", "A", " ", "D", "J", " ", "B">>

(* C11 as the code has it: clean_query("DJ A B2B DJ B - Live Set") returns
   "DJ A DJ B - Live Set", the ' B2B ' token replaced by one space and the
   words "- Live Set", which stand in no bracket and are no junk string, kept;
   clean_query("DJ A B2B DJ B (Live Set)") returns "DJ A DJ B"; and whatever
   it returns neither begins nor ends with white space nor holds two white
   spaces in a row. *)
C11_B2BRemovedLiveSetKept ==
    (call.fn = "clean_query" /\ ret.done) =>
        /\ call.text = 
            <<"D", "J", " ", "A", " ", "B", "2", "B", " ", "D", "J", " ", "B", " ", "-", " ", "L", "i", "v", "e", " ", "S", "e", "t">> => ret.value = 
            <<"D", "J", " ", "A", " ", "D", "J", " ", "B", " ", "-", " ", "L", "i", "v", "e", " ", "S", "e", "t">>
        /\ call.text = 
            <<"D", "J", " ", "A", " ", "B", "2", "B", " ", "D", "J", " ", "B", " ", "(", "L", "i", "v", "e", " ", "S", "e", "t", ")">> => ret.value = 
            <<"D", "J", " ", "A", " ", "D", "J", " ", "B">>
        /\ \A i \in DOMAIN ret.value :
              IsSpace(ret.value[i]) =>
                  /\ ret.value[i] = " "
                  /\ 1 < i /\ i < Len(ret.value)
                  /\ ~IsSpace(ret.value[i + 1])

\* C11 witness: clean_query has returned "DJ A DJ B - Live Set" for the text of
\* the example
C11_Witness ==
    /\ call.fn = "clean_query" /\ ret.done
    /\ call.text = 
            <<"D", "J", " ", "A", " ", "B", "2", "B", " ", "D", "J", " ", "B", " ", "-", " ", "L", "i", "v", "e", " ", "S", "e", "t">>
    /\ ret.value = 
            <<"D", "J", " ", "A", " ", "D", "J", " ", "B", " ", "-", " ", "L", "i", "v", "e", " ", "S", "e", "t">>

(* ------------------------------------------------------------------------
   MetadataManager.guess_metadata_from_filename.
   ------------------------------------------------------------------------ *)

\* the patterns with "Artist - Album - Title" tried first: the faulty variant
\* that C12 tells from the code
patterns_album_first ==
    LET sep == [group |-> "", greedy |-> FALSE, digits |-> FALSE, text |-> <<" ", "-", " ">>]
    IN  <<
        \* Artist - Album - Title
        <<[group |-> "artist", greedy |-> FALSE, digits |-> FALSE, text |-> <<>>],
          sep,
          [group |-> "album", greedy |-> FALSE, digits |-> FALSE, text |-> <<>>],
          sep,
          [group |-> "title", greedy |-> TRUE, digits |-> FALSE, text |-> <<>>]>>,
        \* Artist - Album - Track - Title
        <<[group |-> "artist", greedy |-> FALSE, digits |-> FALSE, text |-> <<>>],
          sep,
          [group |-> "album", greedy |-> FALSE, digits |-> FALSE, text |-> <<>>],
          sep,
          [group |-> "track", greedy |-> TRUE, digits |-> TRUE, text |-> <<>>],
          sep,
          [group |-> "title", greedy |-> TRUE, digits |-> FALSE, text |-> <<>>]>>,
        \* Track - Artist - Title
        <<[group |-> "track", greedy |-> TRUE, digits |-> TRUE, text |-> <<>>],
          sep,
          [group |-> "artist", greedy |-> FALSE, digits |-> FALSE, text |-> <<>>],
          sep,
          [group |-> "title", greedy |-> TRUE, digits |-> FALSE, text |-> <<>>]>>,
        \* Artist - Title
        <<[group |-> "artist", greedy |-> FALSE, digits |-> FALSE, text |-> <<>>],
          sep,
          [group |-> "title", greedy |-> TRUE, digits |-> FALSE, text |-> <<>>]>>,
        \* Track - Title
        <<[group |-> "track", greedy |-> TRUE, digits |-> TRUE, text |-> <<>>],
          sep,
          [group |-> "title", greedy |-> TRUE, digits |-> FALSE, text |-> <<>>]>>
        >>

\* the patterns, in the order of the list
patterns ==
    LET sep == [group |-> "", greedy |-> FALSE, digits |-> FALSE, text |-> <<" ", "-", " ">>]
    IN  <<
        \* Artist - Album - Track - Title
        <<[group |-> "artist", greedy |-> FALSE, digits |-> FALSE, text |-> <<>>],
          sep,
          [group |-> "album", greedy |-> FALSE, digits |-> FALSE, text |-> <<>>],
          sep,
          [group |-> "track", greedy |-> TRUE, digits |-> TRUE, text |-> <<>>],
          sep,
          [group |-> "title", greedy |-> TRUE, digits |-> FALSE, text |-> <<>>]>>,
        \* Artist - Album - Title
        <<[group |-> "artist", greedy |-> FALSE, digits |-> FALSE, text |-> <<>>],
          sep,
          [group |-> "album", greedy |-> FALSE, digits |-> FALSE, text |-> <<>>],
          sep,
          [group |-> "title", greedy |-> TRUE, digits |-> FALSE, text |-> <<>>]>>,
        \* Track - Artist - Title
        <<[group |-> "track", greedy |-> TRUE, digits |-> TRUE, text |-> <<>>],
          sep,
          [group |-> "artist", greedy |-> FALSE, digits |-> FALSE, text |-> <<>>],
          sep,
          [group |-> "title", greedy |-> TRUE, digits |-> FALSE, text |-> <<>>]>>,
        \* Artist - Title
        <<[group |-> "artist", greedy |-> FALSE, digits |-> FALSE, text |-> <<>>],
          sep,
          [group |-> "title", greedy |-> TRUE, digits |-> FALSE, text |-> <<>>]>>,
        \* Track - Title
        <<[group |-> "track", greedy |-> TRUE, digits |-> TRUE, text |-> <<>>],
          sep,
          [group |-> "title", greedy |-> TRUE, digits |-> FALSE, text |-> <<>>]>>
        >>

guess_metadata_from_filename(filename) ==
    LET has(set, c) == \E i \in DOMAIN set : set[i] = c
        \* os.path.splitext(os.path.basename(filename))[0]
        basename == IF \E i \in DOMAIN filename : filename[i] = "/"
                    THEN SubSeq(filename,
                                1 + CHOOSE i \in DOMAIN filename :
                                        /\ filename[i] = "/"
                                        /\ \A j \in DOMAIN filename : filename[j] = "/" => j <= i,
                                Len(filename))
                    ELSE filename
        name0 == splitext_root(basename)
        \* re.search(r'\[([A-Z0-9\-]+)\]', name_only, re.I): where the first
        \* match begins and ends
        inToken(c) == has(LowerCase, LowerChar(c)) \/ has(Digits, c) \/ c = "-"
        RECURSIVE tokenEnd(_)
        tokenEnd(j) == IF j <= Len(name0) /\ inToken(name0[j]) THEN tokenEnd(j + 1) ELSE j
        begins(i) == /\ name0[i] = "[" /\ tokenEnd(i + 1) > i + 1
                     /\ tokenEnd(i + 1) <= Len(name0) /\ name0[tokenEnd(i + 1)] = "]"
        cat_match == \E i \in DOMAIN name0 : begins(i)
        first == CHOOSE i \in DOMAIN name0 : begins(i) /\ \A j \in DOMAIN name0 : begins(j) => i <= j
        \* s.strip(" -_")
        RECURSIVE strip(_)
        strip(s) == IF s = <<>> THEN s
                    ELSE IF s[1] \in {" ", "-", "_"} THEN strip(Tail(s))
                    ELSE IF s[Len(s)] \in {" ", "-", "_"} THEN strip(SubSeq(s, 1, Len(s) - 1))
                    ELSE s
        name_only == IF cat_match
                     THEN strip(Strip(CollapseSpaces(Strip(
                              replace(name0, SubSeq(name0, first, tokenEnd(first + 1)), <<>>)))))
                     ELSE name0
        guessed == IF cat_match
                   THEN (KEY_CATALOG :> SubSeq(name0, first + 1, tokenEnd(first + 1) - 1))
                   ELSE [k \in {} |-> <<>>]
        match(i) == re_match(patterns[i], name_only, [k \in {} |-> <<>>])
        matched_pattern == \E i \in DOMAIN patterns : match(i).matched
        data == match(CHOOSE i \in DOMAIN patterns :
                          match(i).matched /\ \A j \in DOMAIN patterns : match(j).matched => i <= j
                     ).groupdict
    IN  IF matched_pattern
        THEN [k \in DOMAIN guessed \cup DOMAIN data |->
                 IF k \in DOMAIN data THEN Strip(data[k]) ELSE guessed[k]]
        ELSE Put(guessed, KEY_TITLE, name_only)

\* guess_metadata_from_filename(filename) runs to its return
GuessMetadata ==
    /\ call.fn = "guess_metadata_from_filename" /\ ret = Pending
    /\ ret' = Returned(guess_metadata_from_filename(call.filename))
    /\ UNCHANGED call
    /\ UNCHANGED notCallVars

\* the filenames explored: one to four tokens joined by " - ", with or
\* without a catalog number in brackets in front and an extension behind, and
\* the filename of the example
SpecGuess ==
    /\ LET tokens == {<<"A", "b">>, <<"0", "3">>}
           RECURSIVE join(_)
           join(ts) == IF Len(ts) = 1 THEN ts[1] ELSE ts[1] \o <<" ", "-", " ">> \o join(Tail(ts))
           names == {join(ts) : ts \in UNION {[1..n -> tokens] : n \in 1..4}}
       IN  /\ TagIdle /\ MatchIdle
           /\ call \in {[fn |-> "guess_metadata_from_filename", filename |-> f] :
                           f \in {pre \o n \o ext : pre \in {<<>>, <<"[", "C", "-", "1", "]", " ">>},
                                                   n \in names, ext \in {<<>>, <<".", "m", "p", "3">>}}
                                 \cup {
               <<"A", "r", "t", "i", "s", "t", " ", "-", " ", "A", "l", "b", "u", "m", " ", "-", " ", "0", "3", " ", "-", " ", "T", "i", "t", "l", "e", ".", "m", "p", "3">>}}
           /\ ret = Pending
    /\ [][GuessMetadata]_vars

\* the filename has the catalog number [C-1] in front
HasCatalog(filename) == MatchesAt(filename, <<"[", "C", "-", "1", "]", " ">>, 1)

\* the filename without the catalog number in front and the extension behind
Bare(filename) ==
    LET from == IF HasCatalog(filename) THEN Len(<<"[", "C", "-", "1", "]", " ">>) + 1 ELSE 1
        to   == IF /\ Len(filename) >= Len(<<".", "m", "p", "3">>)
                   /\ MatchesAt(filename, <<".", "m", "p", "3">>,
                                Len(filename) - Len(<<".", "m", "p", "3">>) + 1)
                THEN Len(filename) - Len(<<".", "m", "p", "3">>) ELSE Len(filename)
    IN  SubSeq(filename, from, to)

\* the fields, in their order, of the first of the five patterns that the name
\* n can be cut into at " - ", every field of one character or more and a
\* track of digits only; <<>> when it can be cut into none
FirstPatternKeys(n) ==
    LET sep(i) == 1 < i /\ MatchesAt(n, <<" ", "-", " ">>, i)
        digits(i, j) == i <= j /\ \A k \in i..j : \E d \in DOMAIN Digits : Digits[d] = n[k]
        some(i, j) == i <= j
        P == DOMAIN n
        L == Len(n)
    IN  IF \E i, j, k \in P : /\ sep(i) /\ sep(j) /\ sep(k)
                              /\ some(i + 3, j - 1) /\ digits(j + 3, k - 1) /\ some(k + 3, L)
        THEN <<"artist", "album", "track", "title">>
        ELSE IF \E i, j \in P : sep(i) /\ sep(j) /\ some(i + 3, j - 1) /\ some(j + 3, L)
        THEN <<"artist", "album", "title">>
        ELSE IF \E i, j \in P : /\ sep(i) /\ sep(j) /\ digits(1, i - 1)
                                /\ some(i + 3, j - 1) /\ some(j + 3, L)
        THEN <<"track", "artist", "title">>
        ELSE IF \E i \in P : sep(i) /\ some(i + 3, L)
        THEN <<"artist", "title">>
        ELSE IF \E i \in P : sep(i) /\ digits(1, i - 1) /\ some(i + 3, L)
        THEN <<"track", "title">>
        ELSE <<>>

(* C12: guess_metadata_from_filename takes the catalog number in brackets out
   of the name, then returns the fields of the first of the patterns
   'artist - album - track - title', 'artist - album - title',
   'track - artist - title', 'artist - title', 'track - title' that matches
   what is left, the fields joined by " - " being what is left; when none
   matches what is left is the title.  "Artist - Album - 03 - Title.mp3"
   gives the artist, the album, the track "03" and the title. *)
C12_FirstPatternInOrder ==
    (call.fn = "guess_metadata_from_filename" /\ ret.done) =>
        LET n    == Bare(call.filename)
            keys == FirstPatternKeys(n)
            RECURSIVE joined(_)
            joined(i) == IF i = Len(keys) THEN ret.value[keys[i]]
                         ELSE ret.value[keys[i]] \o <<" ", "-", " ">> \o joined(i + 1)
        IN  /\ KEY_CATALOG \in DOMAIN ret.value <=> HasCatalog(call.filename)
            /\ HasCatalog(call.filename) => ret.value[KEY_CATALOG] = <<"C", "-", "1">>
            /\ IF keys = <<>>
               THEN DOMAIN ret.value \ {KEY_CATALOG} = {KEY_TITLE} /\ ret.value[KEY_TITLE] = n
               ELSE /\ DOMAIN ret.value \ {KEY_CATALOG} = {keys[i] : i \in DOMAIN keys}
                    /\ joined(1) = n
            /\ call.filename =
                  <<"A", "r", "t", "i", "s", "t", " ", "-", " ", "A", "l", "b", "u", "m", " ", "-", " ", "0", "3", " ", "-", " ", "T", "i", "t", "l", "e", ".", "m", "p", "3">> =>
                  ret.value = (KEY_ARTIST :> <<"A", "r", "t", "i", "s", "t">>) @@ (KEY_ALBUM :> <<"A", "l", "b", "u", "m">>)
                              @@ (KEY_TRACK :> <<"0", "3">>) @@ (KEY_TITLE :> <<"T", "i", "t", "l", "e">>)

\* C12 witness: the fields of the example returned
C12_Witness ==
    /\ call.fn = "guess_metadata_from_filename" /\ ret.done
    /\ call.filename =
                  <<"A", "r", "t", "i", "s", "t", " ", "-", " ", "A", "l", "b", "u", "m", " ", "-", " ", "0", "3", " ", "-", " ", "T", "i", "t", "l", "e", ".", "m", "p", "3">>
    /\ ret.value[KEY_TRACK] = <<"0", "3">>
    /\ ret.value[KEY_TITLE] = <<"T", "i", "t", "l", "e">>

-----------------------------------------------------------------------------
(* The file scanner.  A directory is [name, files, dirs]: the entries os.walk
   lists as files, each [name, kind], and the directories below it.  The kind
   of an entry is what the file system and the adapter do with it: "audio" is
   read, "corrupt" makes the adapter raise, "gone" is an entry for which
   os.path.exists is False when its tags are loaded (a dangling link, a file
   removed or made unreachable during the scan). *)

\* the most entries listed in the directories of one scan
MaxFiles == 2

\* the most directories below one another under the scanned one
MaxDepth == 2

\* load_tags whose except clause raises again
load_path_reraising(entry) ==
    [raised |-> entry.kind # "audio", tags |-> EmptyDict]

\* load_tags(file_path), from os.path.exists to the return or the raise
load_path(entry) ==
    IF entry.kind = "gone" THEN [raised |-> TRUE]
    ELSE LET suffix == SubSeq(entry.name, Len(splitext_root(entry.name)) + 1, Len(entry.name))
             ext == IF Lower(suffix) = <<".", "m", "p", "3">> THEN ".mp3"
                    ELSE IF Lower(suffix) = <<".", "f", "l", "a", "c">> THEN ".flac"
                    ELSE IF Lower(suffix) \in {<<".", "m", "4", "a">>, <<".", "a", "a", "c">>}
                         THEN ".m4a"
                    ELSE ""
             f == [ext |-> ext, hasId3 |-> TRUE, tags |-> EmptyDict, pics |-> <<>>]
         IN  IF entry.kind = "corrupt" /\ ext # ""
             THEN [raised |-> FALSE, tags |-> EmptyDict]
             ELSE [raised |-> FALSE, tags |-> load_tags(f, CHOOSE pick \in LoadPicks(f) : TRUE)]

\* os.walk that stays in the top directory
walk_top_only(root, dir) == <<[root |-> root, files |-> dir.files]>>

RECURSIVE walk(_, _)
\* os.walk(path): the directories top down, each with its path and its files
walk(root, dir) ==
    LET RECURSIVE below(_)
        below(i) == IF i > Len(dir.dirs) THEN <<>>
                    ELSE walk(Append(root, dir.dirs[i].name), dir.dirs[i]) \o below(i + 1)
    IN  <<[root |-> root, files |-> dir.files]>> \o below(1)

\* scan_directory(path) with no callback, as the main window calls it
scan_directory(exists, dir) ==
    LET endswith_exts(name) ==
            \E e \in {<<".", "m", "p", "3">>, <<".", "f", "l", "a", "c">>,
                      <<".", "m", "4", "a">>, <<".", "m", "p", "4">>} :
                Len(name) >= Len(e) /\ MatchesAt(Lower(name), e, Len(name) - Len(e) + 1)
        visit(found, root, entry) ==
            IF ~endswith_exts(entry.name) THEN found
            ELSE LET r == load_path(entry)
                 IN  IF r.raised THEN found
                     ELSE Append(found, [file_path |-> [root |-> root, name |-> entry.name],
                                          metadata |-> r.tags])
        RECURSIVE in_dir(_, _, _)
        in_dir(found, d, i) ==
            IF i > Len(d.files) THEN found
            ELSE in_dir(visit(found, d.root, d.files[i]), d, i + 1)
        RECURSIVE in_walk(_, _, _)
        in_walk(found, w, i) ==
            IF i > Len(w) THEN found
            ELSE in_walk(in_dir(found, w[i], 1), w, i + 1)
    IN  IF ~exists THEN <<>> ELSE in_walk(<<>>, walk(<<>>, dir), 1)

\* scan_directory(path) runs to its return
ScanDirectory ==
    /\ call.fn = "scan_directory" /\ ret = Pending
    /\ ret' = Returned(scan_directory(call.exists, call.dir))
    /\ UNCHANGED call
    /\ UNCHANGED notCallVars

SpecScan ==
    /\ LET Entries == {[name |-> n, kind |-> k] :
                          n \in {<<"a", ".", "m", "p", "3">>, <<"b", ".", "F", "l", "a", "c">>, <<"d", ".", "M", "P", "4">>},
                          k \in {"audio", "corrupt", "gone"}}
                      \cup {[name |-> <<"c", ".", "t", "x", "t">>, kind |-> "audio"]}
           RECURSIVE Listings(_)
           Listings(n) ==
               IF n = 0 THEN {<<>>}
               ELSE Listings(n - 1) \cup
                    {Append(s, e) : s \in {l \in Listings(n - 1) : Len(l) = n - 1},
                                    e \in Entries}
           Distinct(s) == \A i, j \in DOMAIN s : s[i].name = s[j].name => i = j
           RECURSIVE Dirs(_, _)
           Dirs(depth, n) ==
               UNION {{[name |-> "sub", files |-> fs, dirs |-> ds] :
                          ds \in {<<>>} \cup (IF depth = 0 THEN {}
                                             ELSE {<<d>> : d \in Dirs(depth - 1, n - Len(fs))})} :
                      fs \in {l \in Listings(n) : Distinct(l)}}
       IN  /\ TagIdle /\ MatchIdle
           /\ call \in {[fn |-> "scan_directory", exists |-> TRUE, dir |-> d] :
                           d \in Dirs(MaxDepth, MaxFiles)}
                       \cup {[fn |-> "scan_directory", exists |-> FALSE,
                              dir |-> [name |-> "sub", files |-> <<>>, dirs |-> <<>>]]}
           /\ ret = Pending
    /\ [][ScanDirectory]_vars

RECURSIVE Under(_, _)
\* the entries under a directory at any depth, each with the path of its directory
Under(root, dir) ==
    {[root |-> root, entry |-> dir.files[i]] : i \in DOMAIN dir.files}
    \cup UNION {Under(Append(root, dir.dirs[i].name), dir.dirs[i]) : i \in DOMAIN dir.dirs}

\* the name ends in a supported audio extension, in either letter case
Supported(name) ==
    \E e \in {<<".", "m", "p", "3">>, <<".", "f", "l", "a", "c">>,
              <<".", "m", "4", "a">>, <<".", "m", "p", "4">>} :
        Len(name) > Len(e) /\ Lower(SubSeq(name, Len(name) - Len(e) + 1, Len(name))) = e

\* the Tracks returned for the entry
TracksOf(u) ==
    {i \in DOMAIN ret.value :
        ret.value[i].file_path = [root |-> u.root, name |-> u.entry.name]}

(* C13: a read error in an adapter is swallowed into an empty tag record and
   does not propagate: scanning a directory with unreadable files returns, and
   returns a Track for every supported file that is there, the unreadable
   ones included, these with no tags at all. *)
C13_ReadErrorsSwallowed ==
    (call.fn = "scan_directory" /\ call.exists /\ ret.done) =>
        \A u \in Under(<<>>, call.dir) :
            (Supported(u.entry.name) /\ u.entry.kind # "gone") =>
                /\ Cardinality(TracksOf(u)) = 1
                /\ u.entry.kind = "corrupt" =>
                      \A i \in TracksOf(u) :
                          DOMAIN ret.value[i].metadata \subseteq {"filepath"}

\* C13 witness: a scan returned a Track for a corrupt file and one for the
\* audio file listed after it, a directory further down
C13_Witness ==
    /\ call.fn = "scan_directory" /\ ret.done
    /\ Len(ret.value) = 2
    /\ ret.value[1].file_path = [root |-> <<>>, name |-> <<"a", ".", "m", "p", "3">>]
    /\ ret.value[1].metadata = EmptyDict
    /\ [name |-> <<"a", ".", "m", "p", "3">>, kind |-> "corrupt"] \in {call.dir.files[i] : i \in DOMAIN call.dir.files}
    /\ ret.value[2].file_path.root = <<"sub">>
    /\ "filepath" \in DOMAIN ret.value[2].metadata

(* C20 as written: scan_directory returns exactly one Track for every file
   under the directory, at any depth, whose name ends in a supported audio
   extension, and no Track for any other file. *)
C20_OneTrackPerSupportedName ==
    (call.fn = "scan_directory" /\ call.exists /\ ret.done) =>
        /\ \A u \in Under(<<>>, call.dir) :
              Cardinality(TracksOf(u)) = (IF Supported(u.entry.name) THEN 1 ELSE 0)
        /\ \A i \in DOMAIN ret.value :
              \E u \in Under(<<>>, call.dir) : i \in TracksOf(u)

(* C20: scan_directory returns exactly one Track for every entry under the
   directory, at any depth, whose name ends in a supported audio extension in
   either letter case and that exists when its tags are loaded, and no Track
   for any other entry: none for another name, none for an entry that is gone
   by then, and none at all when the directory does not exist. *)
C20_OneTrackPerSupportedFileThere ==
    (call.fn = "scan_directory" /\ ret.done) =>
        /\ \A u \in Under(<<>>, call.dir) :
              Cardinality(TracksOf(u)) =
                  (IF call.exists /\ Supported(u.entry.name) /\ u.entry.kind # "gone"
                   THEN 1 ELSE 0)
        /\ \A i \in DOMAIN ret.value :
              \E u \in Under(<<>>, call.dir) : i \in TracksOf(u)

\* C20 witness: a scan returned the Track of a file two directories down whose
\* extension is in upper case, and none for the entry that was gone
C20_Witness ==
    /\ call.fn = "scan_directory" /\ ret.done
    /\ call.dir.files = <<[name |-> <<"a", ".", "m", "p", "3">>, kind |-> "gone"]>>
    /\ Len(ret.value) = 1
    /\ ret.value[1].file_path = [root |-> <<"sub", "sub">>, name |-> <<"d", ".", "M", "P", "4">>]

-----------------------------------------------------------------------------
(* The handlers as the event loop runs them.  session.frames is the stack of
   handler calls that have not returned: the last one runs, the others wait in
   loop.exec() for their search while a handler called from that loop runs.
   A frame holds the number of rows not yet begun (left) and begun (index),
   where the call stands (pc: at the top of its
   loop, in loop.exec(), in DiscogsMatchDialog, in MetadataPreviewDialog), its
   QProgressDialog, its search worker, what happened in the current cycle, its
   counters, and the kinds of failure that no message box of the call, by
   its text or by its counts, has told the user of.
   session.client tells whether the manager has a client since the last
   set_token, session.shown is the message boxes of the last step,
   session.ended the call that returned in the last step.  What the handlers write into the tags is
   in SpecMatch; here save_tags returns True or False. *)

\* the most handler calls that have not returned
MaxFrames == 2

\* the most rows selected when a handler is called
MaxRows == 3

\* QMessageBox: its title, whether its text holds the hint at the token, and
\* the counts in its text, each with the word it stands by
Msg(title, hint, tally) ==
    [title |-> title, hint |-> hint, tally |-> tally]

\* the handler call that runs
Top == session.frames[Len(session.frames)]

\* the running call goes on as frame f after showing msgs
Step(f, msgs) ==
    /\ session' = [session EXCEPT !.frames[Len(session.frames)] = f,
                                  !.shown = msgs, !.ended = [mode |-> "none"]]
    /\ UNCHANGED <<tracks, disk>>
    /\ UNCHANGED notMatchVars

\* the running call returns as frame f after showing msgs
Leave(f, msgs) ==
    /\ session' = [session EXCEPT !.frames = SubSeq(@, 1, Len(@) - 1),
                                  !.shown = msgs, !.ended = f]
    /\ UNCHANGED <<tracks, disk>>
    /\ UNCHANGED notMatchVars

\* `continue` in the loop of _on_match_discogs_track: the cycle of the row is
\* over with events, the next row is at the head
NextTrack(f, events, msgs) ==
    Step([f EXCEPT !.pc = "loop", !.worker = "none", !.progress = "none",
                   !.cycle = @ \o events], msgs)

\* `if not matches` taken although the search found releases
has_matches_whatever(worker) == TRUE

\* `if not matches`: the worker emitted finished with a list that is not empty
has_matches(worker) == worker = "found"

RunInit ==
    /\ TagIdle /\ CallIdle
    /\ tracks = <<>>
    /\ disk = <<>>
    /\ session = [frames |-> <<>>, client |-> FALSE, shown |-> <<>>,
                  ended |-> [mode |-> "none"]]

(* A handler is called, with a token or without, n rows selected, a client
   that set_token can build or not, and for the auto handler the reply to its
   question: the handler up to its first wait or its return. *)
Enter(mode, n, token, client, reply) ==
    /\ LET f == [mode |-> mode, left |-> n, index |-> 0, pc |-> "loop", progress |-> "none",
                 canceled |-> FALSE, worker |-> "none", cycle |-> <<>>,
                 success_count |-> 0, skip_count |-> 0, unreported |-> {}]
           say(title) ==
               [session EXCEPT !.shown = <<Msg(title, FALSE, <<>>)>>,
                               !.ended = [mode |-> "none"], !.client = client]
           push(g) ==
               [session EXCEPT !.frames = Append(@, g), !.shown = <<>>,
                               !.ended = [mode |-> "none"], !.client = client]
       IN  session' =
             IF ~token
             THEN [session EXCEPT
                      !.shown = <<Msg("Discogs Token Required", FALSE, <<>>)>>,
                      !.ended = [mode |-> "none"]]
             ELSE IF mode = "track" THEN push(f)
             ELSE IF mode = "album"
             THEN IF n < 2 THEN say("Select Multiple Tracks")
                  ELSE IF ~client THEN say("Search Failed")
                  ELSE push([f EXCEPT !.pc = "wait", !.worker = "running",
                                      !.progress = "shown", !.cycle = <<"search">>])
             ELSE IF reply # "yes"
                  THEN [session EXCEPT !.shown = <<>>, !.ended = [mode |-> "none"],
                                       !.client = client]
                  ELSE push(f)
    /\ UNCHANGED <<tracks, disk>>
    /\ UNCHANGED notMatchVars

\* the user picks a handler in the menu while no handler runs
(* The user picks a handler in the menu while the running one waits in
   loop.exec() behind a progress dialog that Cancel has hidden: a window-modal
   dialog blocks the main window only while it is on screen, and the local
   event loop delivers the menu's events. *)
Reenter(mode, n, token, client, reply) ==
    /\ session.frames # <<>> /\ Len(session.frames) < MaxFrames
    /\ Top.pc = "wait" /\ Top.progress = "hidden" /\ Top.worker = "running"
    /\ Enter(mode, n, token, client, reply)

(* _on_match_discogs_track, from the top of the loop to loop.exec() or to the
   preview: auto_match accepts the first result ("accept"), has none it is
   sure of ("none"), or catches an error ("error", "unauthorized" for a 401)
   and prints it; without a client it always catches one. *)
TrackCycle(auto, fetched) ==
    /\ session.frames # <<>>
    /\ Top.mode = "track" /\ Top.pc = "loop" /\ Top.left > 0
    /\ ~session.client => auto = "error"
    /\ LET f == [Top EXCEPT !.cycle = <<"auto_match">>, !.left = @ - 1, !.index = @ + 1]
       IN  IF auto = "accept"
           THEN IF fetched
                THEN Step([f EXCEPT !.pc = "preview", !.cycle = @ \o <<"accepted", "fetched">>],
                          <<>>)
                ELSE NextTrack(f, <<"accepted", "fetch_failed", "skipped">>,
                               <<Msg("Fetch Failed", FALSE, <<>>)>>)
           ELSE IF ~session.client
           THEN NextTrack(f, <<"skipped">>, <<Msg("Search Failed", FALSE, <<>>)>>)
           ELSE Step([f EXCEPT !.pc = "wait", !.worker = "running", !.progress = "shown",
                               !.cycle = @ \o <<"search">>,
                               !.unreported = @ \cup (IF auto = "error" THEN {"search"}
                                                      ELSE IF auto = "unauthorized" THEN {"auth"}
                                                      ELSE {})],
                     <<>>)

\* the user presses Cancel in the progress dialog of a search: the dialog
\* hides itself, and nothing is connected to its canceled signal
ProgressCancel ==
    /\ session.frames # <<>>
    /\ Top.pc = "wait" /\ Top.progress = "shown" /\ Top.worker = "running"
    /\ Step([Top EXCEPT !.progress = "hidden", !.canceled = TRUE, !.cycle = Append(@, "cancel")],
            <<>>)

(* DiscogsSearchWorker of call i emits finished (found or empty) or error
   (with the hint at the token after a 401); on_search_finished and
   on_search_error close the progress dialog, show the error, and quit the
   loop of that call. *)
WorkerDone(i, result) ==
    /\ i \in DOMAIN session.frames
    /\ session.frames[i].worker = "running"
    /\ session' = [session EXCEPT
          !.frames[i].worker = IF result \in {"found", "empty"} THEN result ELSE "error",
          !.frames[i].progress = "none",
          !.frames[i].cycle = Append(@, IF result \in {"found", "empty"} THEN result ELSE "error"),
          !.shown = IF result \in {"found", "empty"} THEN <<>>
                    ELSE <<Msg("Search Error", result = "unauthorized", <<>>)>>,
          !.ended = [mode |-> "none"]]
    /\ UNCHANGED <<tracks, disk>>
    /\ UNCHANGED notMatchVars

\* loop.exec() returns in the running call: without matches the row is passed
\* over (the album handler returns), with matches DiscogsMatchDialog opens
Resume ==
    /\ session.frames # <<>>
    /\ Top.pc = "wait" /\ Top.worker \notin {"none", "running"}
    /\ IF has_matches(Top.worker)
       THEN Step([Top EXCEPT !.pc = "select"], <<>>)
       ELSE IF Top.mode = "track"
       THEN NextTrack(Top, <<"skipped">>, <<Msg("No Matches", FALSE, <<>>)>>)
       ELSE Leave([Top EXCEPT !.cycle = Append(@, "skipped")],
                  <<Msg("No Matches", FALSE, <<>>)>>)

(* DiscogsMatchDialog closes, with a release picked or not; get_release_data
   returns the data or None.  The track handler goes to its preview; the
   album handler applies the release to every row, save_tags returning
   saves[k] for the k-th, shows its count and returns. *)
Select(picked, fetched, saves) ==
    /\ session.frames # <<>>
    /\ Top.pc = "select"
    /\ Len(saves) = IF Top.mode = "album" /\ picked /\ fetched THEN Top.left ELSE 0
    /\ LET events == IF ~picked THEN <<"dismissed", "skipped">>
                     ELSE IF ~fetched THEN <<"selected", "fetch_failed", "skipped">>
                     ELSE <<"selected", "fetched">>
           msgs == IF picked /\ ~fetched
                   THEN <<Msg("Fetch Failed", FALSE, <<>>)>>
                   ELSE <<>>
           success_count == Cardinality({k \in DOMAIN saves : saves[k]})
       IN  IF Top.mode = "track"
           THEN IF picked /\ fetched
                THEN Step([Top EXCEPT !.pc = "preview", !.cycle = @ \o events], <<>>)
                ELSE NextTrack(Top, events, msgs)
           ELSE IF picked /\ fetched
                THEN Leave([Top EXCEPT !.left = 0, !.index = Top.left, !.pc = "loop",
                                !.cycle = @ \o events \o
                                    [k \in DOMAIN saves |->
                                        IF saves[k] THEN "saved" ELSE "save_failed"],
                                !.success_count = success_count],
                           <<Msg("Album Match Complete", FALSE,
                                 <<<<"success", success_count>>, <<"of", Top.left>>>>)>>)
                ELSE Leave([Top EXCEPT !.cycle = @ \o events], msgs)

\* MetadataPreviewDialog closes; after an approval the values are applied and
\* save_tags returns True or False, which only decides whether the row is redrawn
Preview(answer, success) ==
    /\ session.frames # <<>>
    /\ Top.pc = "preview"
    /\ IF ~PreviewApproved(answer) THEN NextTrack(Top, <<"preview", "skipped">>, <<>>)
       ELSE IF success THEN NextTrack(Top, <<"preview", "saved">>, <<>>)
       ELSE NextTrack([Top EXCEPT !.unreported = @ \cup {"save"}],
                      <<"preview", "save_failed">>, <<>>)

(* _on_match_discogs_auto, one turn of the loop: `break` when
   progress.wasCanceled(); otherwise the turn goes on: progress.setValue(i),
   auto_match, get_release_data, save_tags.  setValue(0) starts the timer of
   the dialog, setValue(1) puts it on screen, and from setValue(2) on the
   call processes the pending events, a click on Cancel among them: no other
   place of the handler does. *)
AutoCycle(clicked, auto, fetched, success) ==
    /\ session.frames # <<>>
    /\ Top.mode = "auto" /\ Top.pc = "loop" /\ Top.left > 0
    /\ ~session.client => auto = "error"
    /\ IF Top.canceled THEN Step([Top EXCEPT !.left = 0], <<>>)
       ELSE LET now == clicked /\ Top.index >= 2
                f   == [Top EXCEPT !.left = @ - 1, !.index = @ + 1,
                                   !.canceled = now,
                                   !.progress = IF now THEN "hidden" ELSE "shown",
                                   !.cycle = IF now THEN <<"cancel", "auto_match">>
                                             ELSE <<"auto_match">>]
            IN  IF auto # "accept"
                THEN Step([f EXCEPT !.skip_count = @ + 1, !.cycle = @ \o <<"skipped">>,
                                    !.unreported = @ \cup (IF auto = "error" THEN {"search"}
                                                           ELSE IF auto = "unauthorized" THEN {"auth"}
                                                           ELSE {})],
                          <<>>)
                ELSE IF ~fetched
                THEN Step([f EXCEPT !.skip_count = @ + 1,
                                    !.cycle = @ \o <<"accepted", "fetch_failed", "skipped">>,
                                    !.unreported = @ \cup {"fetch"}],
                          <<>>)
                ELSE IF success
                THEN Step([f EXCEPT !.success_count = @ + 1,
                                    !.cycle = @ \o <<"accepted", "fetched", "saved">>],
                          <<>>)
                ELSE Step([f EXCEPT !.cycle = @ \o <<"accepted", "fetched", "save_failed">>,
                                    !.unreported = @ \cup {"save"}],
                          <<>>)

\* after the loop: the track handler says "Discogs metadata applied
\* successfully!", the auto handler shows its two counts
RunEnd ==
    /\ session.frames # <<>>
    /\ Top.mode \in {"track", "auto"} /\ Top.pc = "loop" /\ Top.left = 0
    /\ Leave(Top, IF Top.mode = "track"
                  THEN <<Msg("Success", FALSE, <<>>)>>
                  ELSE <<Msg("Auto-Match Complete", FALSE,
                             <<<<"success", Top.success_count>>,
                               <<"skip", Top.skip_count>>>>)>>)

RunNext ==
    \/ \E mode \in {"track", "album", "auto"}, n \in 1..MaxRows, token, client \in BOOLEAN,
          reply \in {"yes", "no"} :
          session.frames = <<>> /\ Enter(mode, n, token, client, reply)
    \/ \E auto \in {"accept", "none", "error", "unauthorized"}, fetched \in BOOLEAN :
          TrackCycle(auto, fetched)
    \/ ProgressCancel
    \/ \E i \in 1..MaxFrames, result \in {"found", "empty", "error", "unauthorized"} :
          WorkerDone(i, result)
    \/ Resume
    \/ \E picked, fetched \in BOOLEAN, saves \in UNION {[1..n -> BOOLEAN] : n \in 0..MaxRows} :
          Select(picked, fetched, saves)
    \/ \E answer \in {"apply", "skip", "close"}, success \in BOOLEAN : Preview(answer, success)
    \/ \E clicked, fetched, success \in BOOLEAN,
          auto \in {"accept", "none", "error", "unauthorized"} :
          AutoCycle(clicked, auto, fetched, success)
    \/ RunEnd

\* the handlers, one call at a time
SpecRun == RunInit /\ [][RunNext]_vars

\* the handlers with the menu answering during loop.exec()
SpecLoop ==
    RunInit /\ [][\/ RunNext
                  \/ \E mode \in {"track", "album", "auto"}, n \in 1..MaxRows,
                        token, client \in BOOLEAN, reply \in {"yes", "no"} :
                        Reenter(mode, n, token, client, reply)]_vars

(* C14 as written: write errors and catalog errors are always surfaced and
   never silently dropped.  When a handler returns, every failure of
   save_tags, of a search or of get_release_data in it has been told to the
   user, an authorization failure with the hint at the token, and no row
   whose save failed is said to be applied. *)
C14_FailuresSurfaced ==
    session.ended.mode # "none" =>
        /\ session.ended.unreported = {}
        /\ \A k \in DOMAIN session.shown :
              session.shown[k].title = "Success" => "save" \notin session.ended.unreported

(* C15 as written: at any moment at most one catalog search is outstanding. *)
C15_OneSearchOutstanding ==
    Cardinality({i \in DOMAIN session.frames : session.frames[i].worker = "running"}) <= 1

(* C16 as written: every batch handler supports cancellation between tracks.
   Once the user has pressed Cancel in a call, the cycle during which it was
   pressed is the last one of the call, and the result of its search is
   neither shown for selection nor applied. *)
C16_CancelBetweenTracks ==
    \A i \in DOMAIN session.frames :
        LET f == session.frames[i]
        IN  f.canceled =>
              /\ \E k \in DOMAIN f.cycle : f.cycle[k] = "cancel"
              /\ f.pc \notin {"select", "preview"}
              /\ \A k, j \in DOMAIN f.cycle :
                    (f.cycle[k] = "cancel" /\ j > k) =>
                        f.cycle[j] \notin {"selected", "dismissed", "fetched", "fetch_failed",
                                           "preview", "saved", "save_failed"}

(* C17 as written: a batch handler does not stop at the first failing row,
   and the message at its end counts every row it went through exactly once,
   as success, skip or fail: the counts add up to the number of rows gone
   through ("X of N" counts the N - X others as failed). *)
C17_TallyAddsUp ==
    (session.ended.mode # "none" /\ session.ended.index > 0) =>
        \E k \in DOMAIN session.shown :
            LET t == session.shown[k].tally
            IN  /\ t # <<>>
                /\ IF t[2][1] = "of"
                   THEN t[2][2] = session.ended.index /\ t[1][2] <= t[2][2]
                   ELSE t[1][2] + t[2][2] = session.ended.index

\* the place of an event of a cycle in the order Searching, CandidatesFound or
\* NoCandidates, AutoAccepted or AwaitingUserSelection, DetailFetched,
\* AwaitingUserApproval, Applied or Skipped
Stage(event) ==
    IF event \in {"auto_match", "search"} THEN 1
    ELSE IF event \in {"found", "empty", "error"} THEN 2
    ELSE IF event \in {"accepted", "selected", "dismissed"} THEN 3
    ELSE IF event \in {"fetched", "fetch_failed"} THEN 4
    ELSE IF event = "preview" THEN 5
    ELSE 6

\* the cycle keeps the order of the states
InOrder(cycle) ==
    LET c == SelectSeq(cycle, LAMBDA e : e # "cancel")
    IN  /\ \A k, j \in DOMAIN c : k < j => Stage(c[k]) <= Stage(c[j])
        /\ \A k \in DOMAIN c :
              /\ c[k] \in {"fetched", "fetch_failed"} =>
                    \E j \in 1..(k - 1) : c[j] \in {"accepted", "selected"}
              /\ c[k] \in {"empty", "error"} =>
                    \A j \in (k + 1)..Len(c) : c[j] = "skipped"
              /\ c[k] = "saved" => \E j \in 1..(k - 1) : c[j] = "fetched"

(* C18: the cycle of a row follows the order Searching, CandidatesFound or
   NoCandidates, AutoAccepted or AwaitingUserSelection, DetailFetched,
   AwaitingUserApproval, Applied or Skipped, states of it being left out but
   none taken out of turn (the search of auto_match and the search of the
   worker that follows it are the one state Searching): the release is
   fetched only after auto_match accepted a candidate or the user selected
   one, a search that ends without matches is followed by the skip alone, and
   a row is saved only after its release was fetched. *)
C18_StateOrder ==
    /\ \A i \in DOMAIN session.frames : InOrder(session.frames[i].cycle)
    /\ session.ended.mode # "none" => InOrder(session.ended.cycle)

\* C18 witness: a row of the track handler went through every state, from
\* auto_match and the worker's search to the save after the preview
C18_Witness ==
    /\ session.ended.mode = "track"
    /\ session.ended.cycle = <<"auto_match", "search", "found", "selected", "fetched",
                               "preview", "saved">>

(* ------------------------------------------------------------------------
   fuzzy_match_score: the similarity of a local title and a title of the
   release's tracklist, both lowered, as SequenceMatcher's ratio.  A call
   scores the local title against two titles of a tracklist, as the loops
   over the tracklist do, and returns the two scores in their order.
   ------------------------------------------------------------------------ *)

\* the most characters of a title
MaxChars == 2

\* without the two lower() calls
fuzzy_match_score_cased(local_title, discogs_title) == ratio(local_title, discogs_title)

fuzzy_match_score(local_title, discogs_title) ==
    ratio(Lower(local_title), Lower(discogs_title))

FuzzyMatchScore ==
    /\ call.fn = "fuzzy_match_score" /\ ret = Pending
    /\ ret' = Returned([k \in 1..2 |-> fuzzy_match_score(call.local_title, call.titles[k])])
    /\ UNCHANGED call
    /\ UNCHANGED notCallVars

SpecFuzzy ==
    /\ LET Titles == UNION {[1..n -> {"A", "a", "b"}] : n \in 0..MaxChars}
       IN  /\ TagIdle /\ MatchIdle
           /\ call \in [fn : {"fuzzy_match_score"}, local_title : Titles,
                        titles : Titles \X Titles]
           /\ ret = Pending
    /\ [][FuzzyMatchScore]_vars

\* the Levenshtein distance of two strings: the fewest insertions, deletions
\* and replacements of one character that turn a into b
Levenshtein(a, b) ==
    LET Min(S) == CHOOSE m \in S : \A n \in S : m <= n
        RECURSIVE d(_, _)
        d(i, j) == IF i = 0 THEN j
                   ELSE IF j = 0 THEN i
                   ELSE Min({d(i - 1, j) + 1, d(i, j - 1) + 1,
                             d(i - 1, j - 1) + (IF a[i] = b[j] THEN 0 ELSE 1)})
    IN  d(Len(a), Len(b))

\* the edit distance of the local title and the k-th title as they are compared
Distance(k) == Levenshtein(Lower(call.local_title), Lower(call.titles[k]))

(* C19 as written: the score is 1.0 when the two strings are the same but for
   the case of their letters, and it strictly decreases as the edit distance
   of the compared strings grows: of two titles, the one nearer to the local
   title has the greater score. *)
C19_StrictlyDecreasing ==
    ret.done =>
        /\ \A k \in 1..2 :
              Distance(k) = 0 => ret.value[k][1] = ret.value[k][2]
        /\ \A k, j \in 1..2 :
              Distance(k) < Distance(j) => Greater(ret.value[k], ret.value[j])

(* C19 amended: the score is 1.0 exactly when the two strings are the same
   but for the case of their letters, and at edit distance d it is at most
   1 - d / (len(a) + len(b)), so below 1.0 as soon as the strings differ;
   of two titles the nearer one need not have the greater score. *)
C19_OneIffIdentical ==
    ret.done =>
        \A k \in 1..2 :
            LET total == Len(call.local_title) + Len(call.titles[k])
            IN  /\ ret.value[k][1] = ret.value[k][2] <=> Distance(k) = 0
                /\ ret.value[k][1] * total <= (total - Distance(k)) * ret.value[k][2]

\* C19 witness: "Ab" scored against "ab", the same but for the case, and
\* against "b", one deletion away
C19_Witness ==
    /\ ret.done
    /\ call.local_title = <<"A", "b">>
    /\ call.titles = <<<<"a", "b">>, <<"b">>>>
    /\ ret.value = <<<<4, 4>>, <<2, 3>>>>

(* ------------------------------------------------------------------------
   _on_match_discogs_album: the loop over tracks_data that looks, for the
   title of every selected track, for the best entry of the tracklist.
   ------------------------------------------------------------------------ *)

\* the loop with every entry taken by at most one track: an entry chosen for a
\* track is out of the pool for the tracks after it
best_match_of_each_once(titles, discogs_tracks) ==
    LET RECURSIVE loop(_, _)
        loop(k, taken) ==
            IF k > Len(titles) THEN <<>>
            ELSE LET pool == SelectSeq([i \in DOMAIN discogs_tracks |-> i],
                                       LAMBDA i : i \notin taken)
                     m    == BestMatch(titles[k], [i \in DOMAIN pool |-> discogs_tracks[pool[i]]])
                     best == IF m.best_match = 0 THEN 0 ELSE pool[m.best_match]
                 IN  <<best>> \o loop(k + 1, taken \cup {best})
    IN  loop(1, {})

\* for tdata in tracks_data: best_match and best_score start anew for every
\* track and the loop over discogs_tracks takes the whole tracklist; the
\* result is the index of best_match for every track, 0 for None
best_match_of_each(titles, discogs_tracks) ==
    [k \in DOMAIN titles |-> BestMatch(titles[k], discogs_tracks).best_match]

\* the release is fetched and the loop run over the selected tracks
AlbumBestMatches ==
    /\ call.fn = "best_match_of_each" /\ ret = Pending
    /\ LET tracklist == [i \in DOMAIN call.release |-> TrackEntry(call.release[i])]
       IN  ret' = Returned([tracklist |-> tracklist,
                            best |-> best_match_of_each(call.titles, tracklist)])
    /\ UNCHANGED call
    /\ UNCHANGED notCallVars

SpecAlbum ==
    /\ LET Titles == {<<"X", "y">>, <<"Z", "z">>, <<"Q">>}
       IN  /\ TagIdle /\ MatchIdle
           /\ call \in [fn : {"best_match_of_each"},
                        titles : UNION {[1..n -> Titles] : n \in 1..NTracks},
                        release : UNION {[1..n ->
                            [title : {<<"X", "y">>, <<"Z", "z">>}, position : {<<"A", "1">>},
                             duration : {<<>>}, artists : {<<>>}]] : n \in 0..MaxTracklist}]
           /\ ret = Pending
    /\ [][AlbumBestMatches]_vars

(* C21: the entry chosen for a track has the greatest score of all entries of
   the tracklist and is the first of that score; the choice for a track is the
   one the loop makes for that track alone, whatever tracks stand before it,
   so that tracks of the same title get the same entry. *)
C21_IndependentBestMatch ==
    ret.done =>
        \A k \in DOMAIN call.titles :
            LET scores == BestMatch(call.titles[k], ret.value.tracklist).scores
                best   == ret.value.best[k]
            IN  /\ best # 0 =>
                      /\ \A j \in DOMAIN scores : ~Greater(scores[j], scores[best])
                      /\ \A j \in 1..(best - 1) : Greater(scores[best], scores[j])
                /\ best = 0 => \A j \in DOMAIN scores : scores[j][1] = 0
                /\ best = best_match_of_each(<<call.titles[k]>>, ret.value.tracklist)[1]
                /\ \A j \in DOMAIN call.titles :
                      call.titles[j] = call.titles[k] => ret.value.best[j] = best

\* C21 witness: two tracks of the title "Xy" both get the second entry of the
\* tracklist, the one of their title
C21_Witness ==
    /\ ret.done
    /\ call.fn = "best_match_of_each"
    /\ call.titles = <<<<"X", "y">>, <<"X", "y">>>>
    /\ Len(ret.value.tracklist) = 2
    /\ ret.value.tracklist[1].title = <<"Z", "z">>
    /\ ret.value.best = <<2, 2>>

-----------------------------------------------------------------------------
(* More claims about the tag adapters (checked under SpecTags) *)

(* C22 as written: for MP3 a write fully replaces the comment.  After
   save_tags with a non-empty comment the file holds no comment frame but the
   one written, and load_tags returns the comment written, whatever comment
   frames the file held before. *)
C22_CommentFullyReplaced ==
    (/\ saved.called /\ saved.ok /\ file.ext = ".mp3"
     /\ KEY_COMMENT \in DOMAIN saved.tags /\ Truthy(saved.tags[KEY_COMMENT])) =>
        /\ {k \in DOMAIN file.tags : StartsWithCOMM(k)} = {"COMM::eng"}
        /\ tpc = "loaded" => Get(loaded, KEY_COMMENT, "") = Str(saved.tags[KEY_COMMENT])

(* C23: for FLAC, save_tags with an empty value for a field of the tag record
   deletes the Vorbis comment of that field, and every Vorbis comment whose
   field is not in the tag record stays as it was. *)
C23_FlacEmptyValueDeletes ==
    (saved.called /\ saved.ok /\ file.ext = ".flac") =>
        \A k \in DOMAIN FlacKey :
            /\ (k \in DOMAIN saved.tags /\ ~Truthy(saved.tags[k])) =>
                   FlacKey[k] \notin DOMAIN file.tags
            /\ k \notin DOMAIN saved.tags =>
                   /\ FlacKey[k] \in DOMAIN file.tags <=> FlacKey[k] \in DOMAIN saved.before.tags
                   /\ FlacKey[k] \in DOMAIN file.tags =>
                          file.tags[FlacKey[k]] = saved.before.tags[FlacKey[k]]

\* C23 witness: a FLAC file that held a TITLE was saved with the title "" and
\* holds none now
C23_Witness ==
    /\ tpc = "saved" /\ saved.called /\ saved.ok /\ file.ext = ".flac"
    /\ "TITLE" \in DOMAIN saved.before.tags
    /\ saved.tags = (KEY_TITLE :> "")
    /\ file.tags = EmptyDict

(* C24 as written: the compilation is always a boolean.  What load_tags
   returns for it on an MP3, FLAC or MP4 file is one of "0" and "1", and after
   a save_tags with a compilation it is "1" when the value saved was True,
   'True', 'true' or '1' and "0" otherwise, for all three formats alike. *)
C24_CompilationNormalized ==
    (tpc = "loaded" /\ KEY_COMPILATION \in DOMAIN loaded) =>
        /\ loaded[KEY_COMPILATION] \in {"0", "1"}
        /\ (saved.called /\ saved.ok /\ KEY_COMPILATION \in DOMAIN saved.tags) =>
              loaded[KEY_COMPILATION] =
                  IF Str(saved.tags[KEY_COMPILATION]) \in {"True", "true", "1"}
                  THEN "1" ELSE "0"

(* C25 as written: for every adapter and every field, after save_tags with
   the field set to the empty string load_tags returns an empty value for
   that field. *)
C25_EmptySavedLoadsEmpty ==
    (tpc = "loaded" /\ saved.called /\ saved.ok) =>
        \A k \in DOMAIN saved.tags \cap SupportedFields(file.ext) :
            saved.tags[k] = "" => Get(loaded, k, "") = ""

-----------------------------------------------------------------------------
(* C26 as written: every one of the five patterns wins for some filename.  A
   name '<digits> - <artist> - <title>' is guessed as track, artist and
   title, and a name '<digits> - <title>' as track and title. *)
C26_TrackPatternsWin ==
    (call.fn = "guess_metadata_from_filename" /\ ret.done) =>
        LET n      == Bare(call.filename)
            fields == DOMAIN ret.value \ {KEY_CATALOG}
        IN  /\ n = <<"0", "3", " ", "-", " ", "A", "b", " ", "-", " ", "A", "b">> =>
                  /\ fields = {KEY_TRACK, KEY_ARTIST, KEY_TITLE}
                  /\ ret.value[KEY_TRACK] = <<"0", "3">>
            /\ n = <<"0", "3", " ", "-", " ", "A", "b">> =>
                  /\ fields = {KEY_TRACK, KEY_TITLE}
                  /\ ret.value[KEY_TRACK] = <<"0", "3">>

-----------------------------------------------------------------------------
(* C28 as written: whenever save_tags returns False for a track, the metadata
   of the track in memory is what it was before the handler ran: the record
   in memory never shows values that are not in the file.  (Checked under
   SpecMatch, where the handlers call save_tags on the track they changed.) *)
C28_FailedSaveKeepsMetadata ==
    \A row \in DOMAIN tracks :
        (/\ session.outcome[row] = "applied"
         /\ ~save_tags(session.before.disk[row], tracks[row].metadata, NoCover).ok) =>
            tracks[row].metadata = session.before.tracks[row].metadata

-----------------------------------------------------------------------------
(* C29 as written: every extension in SUPPORTED_EXTENSIONS, by which the
   scanner and load_paths take a file into the library, has an adapter in
   load_tags and in save_tags: save_tags on such a file does not return False
   for its extension, and load_tags on such a file that holds tags returns
   some of them.  (Checked under SpecTags, whose files have the extensions of
   SUPPORTED_EXTENSIONS.) *)
C29_SupportedExtensionsDispatched ==
    file.ext \in SUPPORTED_EXTENSIONS =>
        /\ saved.called => saved.ok
        /\ (tpc = "loaded" /\ file.tags # EmptyDict) => DOMAIN loaded # {"filepath"}

-----------------------------------------------------------------------------
(* ------------------------------------------------------------------------
   DownloadQueue: the jobs of the download table and their workers.
   session.jobs is DownloadJobModel.jobs, every job with the number it was
   preloaded under, its status and its progress; session.active_workers is
   the jobs whose worker is a key of DownloadQueue.active_workers;
   session.workers tells where the DownloadWorker of each job is: not
   started ("none"), in ydl.extract_info before the progress hook was called
   with status 'finished' ("downloading"), after that call, in the
   postprocessors ("postprocessing"), or past its finished or error signal
   ("ended"); session.starts counts the start_download calls for each job.
   A signal of a worker and the slot that the event loop runs for it are one
   step.
   ------------------------------------------------------------------------ *)

\* the most jobs preloaded
MaxJobs == 2

\* DownloadJobModel.update_job_progress
update_job_progress(jobs, row, progress) ==
    [jobs EXCEPT ![row].progress = progress,
                 ![row].status = IF progress >= 100 THEN "Done" ELSE "Downloading"]

\* self.model.jobs.index(job): the row of the job, 0 for ValueError
RowOf(id) ==
    IF \E r \in DOMAIN session.jobs : session.jobs[r].id = id
    THEN CHOOSE r \in DOMAIN session.jobs : session.jobs[r].id = id
    ELSE 0

\* _on_fetch_finished: a job preloaded is added with the status 'Pending'
OnFetchFinished ==
    /\ \E id \in 1..MaxJobs :
          /\ session.workers[id] = "none"
          /\ \A r \in DOMAIN session.jobs : session.jobs[r].id # id
          /\ \A other \in 1..(id - 1) : session.starts[other] > 0 \/ RowOf(other) # 0
          /\ session' = [session EXCEPT
                            !.jobs = Append(@, [id |-> id, status |-> "Pending", progress |-> 0])]
    /\ UNCHANGED <<tracks, disk>>
    /\ UNCHANGED notMatchVars

\* _start_download with the rows `selected` (none: every row)
StartDownload(selected) ==
    /\ selected \subseteq DOMAIN session.jobs
    /\ LET rows    == IF selected = {} THEN DOMAIN session.jobs ELSE selected
           started == {session.jobs[r].id : r \in {x \in rows : session.jobs[x].status = "Pending"}}
       IN  session' = [session EXCEPT
               !.jobs = [r \in DOMAIN @ |->
                            IF @[r].id \in started THEN [@[r] EXCEPT !.status = "Starting..."]
                            ELSE @[r]],
               !.active_workers = @ \cup started,
               !.workers = [id \in DOMAIN @ |-> IF id \in started THEN "downloading" ELSE @[id]],
               !.starts = [id \in DOMAIN @ |-> IF id \in started THEN @[id] + 1 ELSE @[id]]]
    /\ UNCHANGED <<tracks, disk>>
    /\ UNCHANGED notMatchVars

\* progress_hook emits progress (100.0 when yt-dlp reports the file as
\* 'finished', before the postprocessors run) and _on_progress takes it
OnProgress(id, p) ==
    /\ session.workers[id] = "downloading"
    /\ session' = [session EXCEPT
           !.workers[id] = IF p = 100 THEN "postprocessing" ELSE @,
           !.jobs = IF id \in session.active_workers /\ RowOf(id) # 0
                    THEN update_job_progress(@, RowOf(id), p) ELSE @]
    /\ UNCHANGED <<tracks, disk>>
    /\ UNCHANGED notMatchVars

\* the worker emits finished, or error with ok = FALSE, and _on_finished or
\* _on_error takes it
OnFinished(id, ok) ==
    /\ session.workers[id] \in {"downloading", "postprocessing"}
    /\ ok => session.workers[id] = "postprocessing"
    /\ session' = [session EXCEPT
           !.workers[id] = "ended",
           !.active_workers = @ \ {id},
           !.jobs = IF id \in session.active_workers /\ RowOf(id) # 0
                    THEN [@ EXCEPT ![RowOf(id)].status = IF ok THEN "Done" ELSE "Error: e"]
                    ELSE @]
    /\ UNCHANGED <<tracks, disk>>
    /\ UNCHANGED notMatchVars

\* _remove_selected with the rows `selected`, and _clear_completed (every row
\* being looked at, the 'Done' ones alone removed)
RemoveJobs(selected, statuses) ==
    /\ selected # {} /\ selected \subseteq DOMAIN session.jobs
    /\ LET keep == SelectSeq([r \in DOMAIN session.jobs |-> r],
                             LAMBDA r : ~(r \in selected /\ session.jobs[r].status \in statuses))
       IN  session' = [session EXCEPT !.jobs = [k \in DOMAIN keep |-> session.jobs[keep[k]]]]
    /\ UNCHANGED <<tracks, disk>>
    /\ UNCHANGED notMatchVars

QueueInit ==
    /\ TagIdle /\ CallIdle /\ tracks = <<>> /\ disk = <<>>
    /\ session = [jobs |-> <<>>, active_workers |-> {},
                  workers |-> [id \in 1..MaxJobs |-> "none"],
                  starts |-> [id \in 1..MaxJobs |-> 0]]

SpecQueue ==
    QueueInit /\ [][\/ OnFetchFinished
                    \/ \E selected \in SUBSET (1..MaxJobs) : StartDownload(selected)
                    \/ \E id \in 1..MaxJobs, p \in {50, 100} : OnProgress(id, p)
                    \/ \E id \in 1..MaxJobs, ok \in BOOLEAN : OnFinished(id, ok)
                    \/ \E selected \in SUBSET (1..MaxJobs) :
                          RemoveJobs(selected, {"Pending", "Done", "Error: e"})
                    \/ RemoveJobs(DOMAIN session.jobs, {"Done"})]_vars

(* C30 as written: a job is started at most once, and a job whose worker was
   started and has not emitted finished or error is in the table with a
   status other than 'Done' and 'Pending', so that Remove Selected and Clear
   Completed leave it there and Start Download does not start it again. *)
C30_RunningJobKept ==
    \A id \in 1..MaxJobs :
        /\ session.starts[id] <= 1
        /\ session.workers[id] \in {"downloading", "postprocessing"} =>
              /\ RowOf(id) # 0
              /\ session.jobs[RowOf(id)].status \notin {"Done", "Pending"}

-----------------------------------------------------------------------------
(* ------------------------------------------------------------------------
   The tag editor's save and Undo.  tracks and disk are the rows of the
   library and their files (a row's file path is its row number);
   session.undo_stack is MainWindow.undo_stack, every batch a sequence of
   (path, old_tags); session.action_undo is whether the Undo action is
   enabled; session.last tells whether the last step was a save that pushed a
   batch ("saved"), one that pushed none ("nosave") or the undo of the last
   save ("undo"), session.rows the rows of that save and session.before the
   rows and files before it.
   ------------------------------------------------------------------------ *)

\* the most batches on the undo stack
MaxUndo == 1

\* _save_library_tags: the editor's `data` without its cover_path, the cover
\* popped from it, and the rows selected
_save_library_tags(data, cover, selected) ==
    /\ selected # {}
    /\ Len(session.undo_stack) < MaxUndo
    /\ LET dirty_data   == [k \in {x \in DOMAIN data : data[x] # "<Multiple>"} |-> data[k]]
           current(row) == dirty_data @@ tracks[row].metadata
           result(row)  == save_tags(disk[row], current(row), cover)
           count        == Cardinality({row \in selected : result(row).ok})
           RECURSIVE batch(_)
           batch(S) == IF S = {} THEN <<>>
                       ELSE LET row == CHOOSE r \in S : \A x \in S : r <= x
                            IN  <<[path |-> row, old_tags |-> tracks[row].metadata]>>
                                \o batch(S \ {row})
       IN  /\ disk' = [row \in DOMAIN disk |->
                          IF row \in selected THEN result(row).file ELSE disk[row]]
           /\ tracks' = [row \in DOMAIN tracks |->
                            IF row \in selected /\ result(row).ok
                            THEN [tracks[row] EXCEPT !.metadata = current(row)]
                            ELSE tracks[row]]
           /\ session' = [undo_stack |-> IF count > 0
                                         THEN Append(session.undo_stack, batch(selected))
                                         ELSE session.undo_stack,
                          action_undo |-> IF count > 0 THEN TRUE ELSE session.action_undo,
                          last |-> IF count > 0 THEN "saved" ELSE "nosave",
                          rows |-> selected,
                          before |-> [tracks |-> tracks, disk |-> disk]]
    /\ UNCHANGED notMatchVars

\* MainWindow.undo
undo ==
    /\ session.undo_stack # <<>>
    /\ LET last_action == session.undo_stack[Len(session.undo_stack)]
           paths       == {last_action[k].path : k \in DOMAIN last_action}
           old_tags(p) == (CHOOSE e \in {last_action[k] : k \in DOMAIN last_action} :
                              e.path = p).old_tags
           result(p)   == save_tags(disk[p], old_tags(p), NoCover)
       IN  /\ disk' = [row \in DOMAIN disk |->
                          IF row \in paths THEN result(row).file ELSE disk[row]]
           /\ tracks' = [row \in DOMAIN tracks |->
                            IF row \in paths /\ result(row).ok
                            THEN [tracks[row] EXCEPT !.metadata = old_tags(row)]
                            ELSE tracks[row]]
           /\ session' = [session EXCEPT
                             !.undo_stack = SubSeq(@, 1, Len(@) - 1),
                             !.action_undo = Len(session.undo_stack) - 1 > 0,
                             !.last = IF session.last = "saved" THEN "undo" ELSE "other"]
    /\ UNCHANGED notMatchVars

SpecUndo ==
    /\ LET UndoFiles == {f \in PriorFiles :
                            /\ f.pics = <<>>
                            /\ \/ f.ext = ".mp3" /\ (~f.hasId3 \/ DOMAIN f.tags = {"TIT2"})
                               \/ f.ext = ".flac" /\ DOMAIN f.tags = {"TITLE"}
                               \/ f.ext = ".mp4" /\ DOMAIN f.tags = {}}
       IN  /\ TagIdle /\ CallIdle
           /\ disk \in [1..NTracks -> UndoFiles]
           /\ tracks = [row \in 1..NTracks |->
                           [filename |-> row,
                            metadata |-> load_tags(disk[row], [cat |-> "", comm |-> "", pic |-> 0])]]
           /\ session = [undo_stack |-> <<>>, action_undo |-> FALSE, last |-> "none", rows |-> {},
                         before |-> [tracks |-> tracks, disk |-> disk]]
    /\ [][\/ \E data \in [{KEY_TITLE, KEY_COMMENT} -> {"", "Ab", "<Multiple>"}],
                cover \in {NoCover, [path |-> "cover.jpg", exists |-> TRUE, data |-> "new"]},
                selected \in SUBSET (1..NTracks) :
                _save_library_tags(data, cover, selected)
          \/ undo]_vars

(* C27 as written: after _save_library_tags on some tracks followed by undo,
   every field of each of them reads from the file as it read before the
   save, is in the in-memory metadata what it was before the save, and reads
   from the file as the metadata has it (a field absent from a dict counting
   as empty), also for the fields that the save added; and the Undo action is
   enabled exactly when the undo stack is not empty. *)
C27_UndoRestores ==
    /\ session.action_undo = (session.undo_stack # <<>>)
    /\ session.last = "undo" =>
          \A row \in session.rows, k \in {KEY_TITLE, KEY_COMMENT} :
              LET on_disk(f) == {Get(load_tags(f, pick), k, "") : pick \in LoadPicks(f)}
                  in_memory  == Get(tracks[row].metadata, k, "")
              IN  /\ on_disk(disk[row]) = on_disk(session.before.disk[row])
                  /\ in_memory = Get(session.before.tracks[row].metadata, k, "")
                  /\ on_disk(disk[row]) = {in_memory}
====
